---- MODULE Spec2Model ----
(***************************************************************************)
(* The Kapacitor UDF agent (udf/agent/py/kapacitor/udf/agent.py): the      *)
(* varint codec, the framed read/dispatch loop of one Agent, the           *)
(* lock-protected write_response, and the handler seen as a                *)
(* nondeterministic callee of the loop.                                    *)
(***************************************************************************)
EXTENDS Integers, Sequences, FiniteSets, TLC

(***************************************************************************)
(* Bounds of the model.                                                    *)
(***************************************************************************)
\* frames on the input stream
MaxReqs == 2
\* frames on the input stream when the handler starts no thread
MaxSeqReqs == 3
\* handler-spawned background threads
NEmitters == 1
\* write_response calls of each background thread
KFrames == 2
\* write()/flush() calls of the output stream that raise
MaxFaults == 1
\* write_response calls a handler makes from inside its callbacks
MaxHandlerEmits == 1
\* filler bytes of a background frame (its length prefix takes two bytes)
BigPad == 125
\* high part of the values put through the codec alone: 16 is 2^32
MaxCodecHi == 16
\* frames on the input stream of the moving-average handler
MaxAvgReqs == 3

\* connections a Server gets, pieces of work on each, errors of accept,
\* calls of stop from outside
MaxConns == 2
ConnWork == 2
MaxAcceptErrors == 1
MaxStops == 2

\* requests to the outliers handler after its Init
MaxOutReqs == 6

\* requests to the moving-average handler after its Init, when it is
\* given points and snapshots
MaxSnapReqs == 4

\* the unit of the averages: 1/AvgScale
AvgScale == 60

(***************************************************************************)
(* Varint codec, agent.py:162-195.                                         *)
(***************************************************************************)
byteSize == 8
shiftSize == byteSize - 1
varintMoreMask == 2 ^ shiftSize
varintMask == varintMoreMask - 1

\* Python integers are unbounded and the checker's are 32-bit: a value is
\* kept as hi * 2^LoBits + lo with 0 <= lo < 2^LoBits, four 7-bit groups in lo
LoBits == 4 * shiftSize
Wide(hi, lo) == [hi |-> hi, lo |-> lo]
Small(n) == Wide(0, n)

mask32uint == Wide(2 ^ (32 - LoBits) - 1, 2 ^ LoBits - 1)

\* value & varintMask
LowBits(value) == value.lo % (varintMask + 1)
\* value >>= shiftSize
ShiftRight(value) ==
  Wide(value.hi \div (2 ^ shiftSize),
       (value.lo \div (2 ^ shiftSize))
         + (value.hi % (2 ^ shiftSize)) * (2 ^ (LoBits - shiftSize)))
\* result | (bits << shift): shift is a multiple of shiftSize, the groups
\* never overlap
OrShifted(result, bits, shift) ==
  IF shift < LoBits
    THEN Wide(result.hi, result.lo + bits * (2 ^ shift))
    ELSE Wide(result.hi + bits * (2 ^ (shift - LoBits)), result.lo)
\* a decoder's mask that keeps every bit
KeepAllBits(result, mask) == result

\* result & mask, for a mask of the form 2^k - 1
AndMask(result, mask) == Wide(result.hi % (mask.hi + 1), result.lo % (mask.lo + 1))
\* a continuation test that takes every byte for the last one
HasMoreNever(b) == FALSE

\* b & varintMoreMask
HasMore(b) == (b \div varintMoreMask) % 2 = 1

RECURSIVE encodeLoop(_, _)
encodeLoop(bits, value) ==
  IF value # Small(0)
    THEN <<varintMoreMask + bits>> \o encodeLoop(LowBits(value), ShiftRight(value))
    ELSE <<bits>>

\* an encoder without the loop: the low group only, as the last byte
encodeOneByte(value) == <<LowBits(value)>>

\* an encoder that always writes a second byte
encodePadded(value) ==
  <<varintMoreMask + LowBits(value)>>
    \o encodeLoop(LowBits(ShiftRight(value)), ShiftRight(ShiftRight(value)))

\* the bytes encodeUvarint hands to writer.write, one call per byte
encodeUvarint(value) == encodeLoop(LowBits(value), ShiftRight(value))

\* a decoder that reports the end of the stream as a failure
decodeEofAsError(s, p) ==
  IF p > Len(s) THEN [st |-> "error", val |-> Small(0), pos |-> p]
  ELSE [st |-> "ok", val |-> Small(s[p] % (varintMask + 1)), pos |-> p + 1]

\* a decoder without the limit on the shift
RECURSIVE decodeLoopNoLimit(_, _, _, _)
decodeLoopNoLimit(s, p, result, shift) ==
  IF p > Len(s)
    THEN [st |-> "EOF", val |-> Small(0), pos |-> p]
    ELSE IF ~HasMore(s[p])
           THEN [st |-> "ok", val |-> Small(s[p] % (varintMask + 1)), pos |-> p + 1]
           ELSE decodeLoopNoLimit(s, p + 1, result, shift + shiftSize)

RECURSIVE decodeLoop(_, _, _, _)
decodeLoop(s, p, result, shift) ==
  IF p > Len(s)
    THEN [st |-> "EOF", val |-> Small(0), pos |-> p]
    ELSE LET b == s[p]
             r == OrShifted(result, b % (varintMask + 1), shift)
         IN  IF ~HasMore(b)
               THEN [st |-> "ok", val |-> AndMask(r, mask32uint), pos |-> p + 1]
               ELSE IF shift + shiftSize >= 32
                      THEN [st |-> "error", val |-> Small(0), pos |-> p + 1]
                      ELSE decodeLoop(s, p + 1, r, shift + shiftSize)

\* decodeUvarint32 on the bytes of s from position p on
decodeUvarint32(s, p) == decodeLoop(s, p, Small(0), 0)

(***************************************************************************)
(* Messages.  udf_pb2 is generated code outside the sources: a message is  *)
(* a record with one variant, serialized as its tag and its fields.        *)
(***************************************************************************)
Req(kind, a) == [kind |-> kind, a |-> a]
Resp(kind, a, b, pad) == [kind |-> kind, a |-> a, b |-> b, pad |-> pad]

ReqKinds == {"info", "init", "keepalive", "snapshot", "restore", "begin", "point", "end"}

\* field numbers of the oneof, as length-delimited tags
Tag(kind) ==
  CASE kind = "info"      -> 10
    [] kind = "init"      -> 18
    [] kind = "keepalive" -> 26
    [] kind = "snapshot"  -> 34
    [] kind = "restore"   -> 42
    [] kind = "error"     -> 50
    [] kind = "begin"     -> 130
    [] kind = "point"     -> 138
    [] kind = "end"       -> 146
    [] OTHER              -> 0

SerializeRequest(r) == <<Tag(r.kind), r.a>>

\* a parser that takes a payload of no bytes for malformed
ParseEmptyFails(data) ==
  IF Len(data) = 2 /\ \E k \in ReqKinds : Tag(k) = data[1]
    THEN [ok |-> TRUE, req |-> Req(CHOOSE k \in ReqKinds : Tag(k) = data[1], data[2])]
    ELSE [ok |-> FALSE, req |-> Req("none", 0)]

\* request.ParseFromString(data); request.WhichOneof("message")
ParseFromString(data) ==
  IF Len(data) = 0
    THEN [ok |-> TRUE, req |-> Req("none", 0)]
    ELSE IF Len(data) = 2 /\ \E k \in ReqKinds : Tag(k) = data[1]
           THEN [ok |-> TRUE,
                 req |-> Req(CHOOSE k \in ReqKinds : Tag(k) = data[1], data[2])]
           ELSE [ok |-> FALSE, req |-> Req("none", 0)]

\* what a handler can hand to write_response besides a Response
NoneResp == Resp("None", 0, 0, 0)
BadResp == Resp("Bad", 0, 0, 0)

\* response.SerializeToString() raises for an object that is no message
Serializable(r) == r.kind \notin {"None", "Bad"}
SerializeToString(r) == <<Tag(r.kind), r.a, r.b>> \o [i \in 1..r.pad |-> 0]

\* the error text "error processing request of type %s: %s" % (msg, e)
CauseVarint == 1
CauseParse == 2
CauseHandler == 3
CauseNone == 4
CauseSerialize == 5
CauseWrite == 6
ErrorResp(m, cause) == Resp("error", Tag(m), cause, 0)

(***************************************************************************)
(* The input stream: what the peer sends before it closes its end.         *)
(***************************************************************************)
FrameOf(req) == encodeUvarint(Small(Len(SerializeRequest(req)))) \o SerializeRequest(req)

\* a frame of length 0, a frame that does not parse, a varint that never ends
EmptyFrame == <<0>>
GarbageFrame == <<1, 255>>
LongVarint == <<128, 128, 128, 128, 128>>

InputFrames ==
  {FrameOf(Req(k, IF k = "keepalive" THEN 7 ELSE 1)) : k \in ReqKinds}
    \cup {EmptyFrame, GarbageFrame, LongVarint}

RECURSIVE Streams(_)
Streams(n) ==
  IF n = 0 THEN {<<>>}
  ELSE Streams(n - 1) \cup {s \o f : s \in Streams(n - 1), f \in InputFrames}

\* what is left of a last frame when the peer closes its end inside it: a
\* continuation byte of a length, a length with none of its payload, a
\* length with part of its payload
VarintCut == <<128>>
PayloadMissing == <<2>>
PayloadCut == <<2, 10>>
Tails == {VarintCut, PayloadMissing, PayloadCut}

\* streams of up to n frames, the last one possibly cut
StreamsCut(n) ==
  IF n = 0 THEN {<<>>}
  ELSE Streams(n) \cup {s \o t : s \in Streams(n - 1), t \in Tails}

(***************************************************************************)
(* State.                                                                  *)
(***************************************************************************)
\* the thread Agent.start creates for _read_loop, and the handler's threads
LoopT == 0
Emitters == 1..NEmitters
Threads == {LoopT} \cup Emitters
Free == -1

VARIABLES
  inp,        \* self._in: the bytes the peer sent, end-of-stream after them
  pos,        \* next byte of inp to read
  lpc,        \* where _read_loop is: read, handler, respond, fatal, stopped
  msg,        \* the local msg of _read_loop
  request,    \* the parsed request
  nread,      \* frames read so far
  stop,       \* how the loop ended: eof, fatal (after the Error emit), crash
  nerr,       \* Error emits attempted
  lock,       \* self._write_lock: Free or the thread holding it
  out,        \* self._out: one entry per write() call, tagged with its writer
  flushed,    \* entries of out a flush() has pushed to the peer
  faultsLeft, \* writes and flushes that may still raise
  wpc,        \* per thread, where its write_response call is
  wresp,      \* per thread, the response argument
  wflush,     \* per thread, the flush argument
  wsrc,       \* per thread, who called: direct, emit, error, bg
  wdata,      \* per thread, data = response.SerializeToString()
  wk,         \* per thread, bytes of the length prefix written
  wn,         \* per thread, write_response calls that took the lock
  bpc,        \* per background thread: off, run, done
  bleft,      \* per background thread, calls still to make
  hemitLeft,  \* emits the handler may still make from its callbacks
  hdepth,     \* handler methods executing now
  hcalls,     \* handler methods invoked, in order
  hrets,      \* values handler methods returned, in order
  wlog,       \* write_response calls that returned normally, in order
  hstate,     \* the fields of the handler object
  codec,      \* a value on its way through encodeUvarint and decodeUvarint32
  peerSnap,   \* the snapshot of the last Snapshot response, as the peer keeps it
  waiter,     \* the thread that calls Agent.wait, and the streams it closes
  server,     \* a Server: its listener, its socket path, its connections
  hq          \* the handler method that runs: its body done, responses to emit

vars == <<inp, pos, lpc, msg, request, nread, stop, nerr, lock, out, flushed,
          faultsLeft, wpc, wresp, wflush, wsrc, wdata, wk, wn, bpc, bleft,
          hemitLeft, hdepth, hcalls, hrets, wlog, hstate, codec,
          peerSnap, waiter, server, hq>>

\* what the read loop and write_response never touch
evars == <<peerSnap, waiter, server, hq>>

\* AvgHandler.__init__, moving_avg.py:53-58: _field None, _size 0, _as 'avg',
\* _state {} (a group maps to the size of its restored window)
NoField == "None"
AvgNew == [field |-> NoField, size |-> 0, as |-> "avg", state |-> <<>>]

\* no value in the codec
NoCodec == [pc |-> "off", v |-> Small(0), tail |-> <<>>, enc |-> <<>>,
            res |-> [st |-> "ok", val |-> Small(0), pos |-> 1]]

\* Agent.__init__ and start(): nothing read, nothing written, no lock held
InitAgent(streams) ==
  /\ inp \in streams
  /\ pos = 1
  /\ lpc = "read"
  /\ msg = "unknown"
  /\ request = Req("none", 0)
  /\ nread = 0
  /\ stop = "no"
  /\ nerr = 0
  /\ lock = Free
  /\ out = <<>>
  /\ flushed = 0
  /\ faultsLeft = MaxFaults
  /\ wpc = [t \in Threads |-> "none"]
  /\ wresp = [t \in Threads |-> NoneResp]
  /\ wflush = [t \in Threads |-> FALSE]
  /\ wsrc = [t \in Threads |-> IF t = LoopT THEN "direct" ELSE "bg"]
  /\ wdata = [t \in Threads |-> <<>>]
  /\ wk = [t \in Threads |-> 0]
  /\ wn = [t \in Threads |-> 0]
  /\ bpc = [e \in Emitters |-> "off"]
  /\ bleft = [e \in Emitters |-> 0]
  /\ hemitLeft = MaxHandlerEmits
  /\ hdepth = 0
  /\ hcalls = <<>>
  /\ hrets = <<>>
  /\ wlog = <<>>

\* no Snapshot response yet
NoSnapshot == [json |-> FALSE, object |-> FALSE, groups |-> <<>>]

\* Agent.wait not called, both streams open; self._thread is the thread of
\* the one start() so far, no second start() has made another
NoWaiter == [pc |-> "idle", inClosed |-> FALSE, outClosed |-> FALSE,
             thread |-> "first", second |-> "none"]

\* no Server constructed
NoServer == [pc |-> "none"]

\* no handler method has got to the end of its body
HqIdle == [run |-> FALSE, emit |-> <<>>]

\* everything but the Agent in its first state
InitRest ==
  /\ hq = HqIdle
  /\ codec = NoCodec
  /\ peerSnap = NoSnapshot
  /\ waiter = NoWaiter
  /\ server = NoServer

InitWith(streams) ==
  /\ hstate = AvgNew
  /\ InitRest
  /\ InitAgent(streams)

(***************************************************************************)
(* Agent.write_response, agent.py:93-108, one step per call on self._out.  *)
(***************************************************************************)
Min(a, b) == IF a < b THEN a ELSE b

\* a lock that lets every caller through
CanAcquireAlways(l) == TRUE

\* self._write_lock.acquire() goes through when no thread holds the lock
CanAcquire(l) == l = Free

\* a lock that stays with the caller after a normal return
LockKeptOnReturn(t) == t

\* finally: self._write_lock.release(), leaving the try block normally
LockAfterReturn(t) == Free

\* a release that is skipped when the try block is left by an exception
LockKeptOnRaise(t) == t

\* finally: self._write_lock.release(), leaving the try block by an exception
LockAfterRaise(t) == Free

\* one write() call on self._out, tagged with the call it belongs to
Chunk(t, part, bytes) ==
  [t |-> t, n |-> wn[t], k |-> wk[t], part |-> part, src |-> wsrc[t],
   ri |-> IF t = LoopT THEN nread ELSE 0, b |-> bytes]

\* self._out.write(b)
OutWrite(o, c) == Append(o, c)

\* the except block of _read_loop, agent.py:149-155: build the Error
\* response and call write_response(response) without flush
EnterFatal(m, cause) ==
  /\ lpc' = "fatal"
  /\ wpc' = [wpc EXCEPT ![LoopT] = "call"]
  /\ wresp' = [wresp EXCEPT ![LoopT] = ErrorResp(m, cause)]
  /\ wflush' = [wflush EXCEPT ![LoopT] = FALSE]
  /\ wsrc' = [wsrc EXCEPT ![LoopT] = "error"]
  /\ nerr' = nerr + 1
  /\ hdepth' = 0

\* write_response(r, flush) is called by thread t
CallWrite(t, r, fl, src) ==
  /\ wpc' = [wpc EXCEPT ![t] = "call"]
  /\ wresp' = [wresp EXCEPT ![t] = r]
  /\ wflush' = [wflush EXCEPT ![t] = fl]
  /\ wsrc' = [wsrc EXCEPT ![t] = src]

\* a loop that goes back to reading after the Error emit
ReturnAndContinue(t) ==
  IF t = LoopT
    THEN /\ wpc' = [wpc EXCEPT ![t] = "none"]
         /\ lpc' = CASE wsrc[t] = "direct" -> "read"
                     [] wsrc[t] = "emit"   -> "handler"
                     [] OTHER              -> "read"
         /\ UNCHANGED <<stop, nerr, wresp, wflush, wsrc, bpc, bleft, hdepth>>
    ELSE /\ wpc' = [wpc EXCEPT ![t] = IF bleft[t] > 1 THEN "call" ELSE "none"]
         /\ bpc' = [bpc EXCEPT ![t] = IF bleft[t] > 1 THEN "run" ELSE "done"]
         /\ bleft' = [bleft EXCEPT ![t] = @ - 1]
         /\ UNCHANGED <<lpc, stop, nerr, wresp, wflush, wsrc, hdepth>>

\* write_response returns to its caller
Return(t) ==
  IF t = LoopT
    THEN /\ wpc' = [wpc EXCEPT ![t] = "none"]
         /\ lpc' = CASE wsrc[t] = "direct" -> "read"
                     [] wsrc[t] = "emit"   -> "handler"
                     [] OTHER              -> "stopped"
         /\ stop' = IF wsrc[t] = "error" THEN "fatal" ELSE stop
         /\ UNCHANGED <<nerr, wresp, wflush, wsrc, bpc, bleft, hdepth>>
    ELSE /\ wpc' = [wpc EXCEPT ![t] = IF bleft[t] > 1 THEN "call" ELSE "none"]
         /\ bpc' = [bpc EXCEPT ![t] = IF bleft[t] > 1 THEN "run" ELSE "done"]
         /\ bleft' = [bleft EXCEPT ![t] = @ - 1]
         /\ UNCHANGED <<lpc, stop, nerr, wresp, wflush, wsrc, hdepth>>

\* write_response raises: in the loop the exception reaches except Exception
\* (from the Error emit itself it leaves _read_loop and ends the thread);
\* a background thread dies of it
Raise(t, cause) ==
  IF t = LoopT
    THEN IF wsrc[t] = "error"
           THEN /\ wpc' = [wpc EXCEPT ![t] = "none"]
                /\ lpc' = "stopped"
                /\ stop' = "crash"
                /\ UNCHANGED <<nerr, wresp, wflush, wsrc, bpc, bleft, hdepth>>
           ELSE /\ EnterFatal(msg, cause)
                /\ UNCHANGED <<stop, bpc, bleft>>
    ELSE /\ wpc' = [wpc EXCEPT ![t] = "none"]
         /\ bpc' = [bpc EXCEPT ![t] = "done"]
         /\ UNCHANGED <<lpc, stop, nerr, wresp, wflush, wsrc, bleft, hdepth>>

\* a write_response without its first check
IsNoneNever(r) == FALSE

\* line 94: response is None
IsNone(r) == r.kind = "None"

\* lines 94-100: the None check, acquire, SerializeToString
WEnter(t) ==
  /\ wpc[t] = "call"
  /\ \/ /\ IsNone(wresp[t])
        /\ Raise(t, CauseNone)
        /\ UNCHANGED <<lock, wdata, wk, wn>>
     \/ /\ ~IsNone(wresp[t])
        /\ CanAcquire(lock)
        /\ Serializable(wresp[t])
        /\ lock' = t
        /\ wdata' = [wdata EXCEPT ![t] = SerializeToString(wresp[t])]
        /\ wk' = [wk EXCEPT ![t] = 0]
        /\ wn' = [wn EXCEPT ![t] = @ + 1]
        /\ wpc' = [wpc EXCEPT ![t] = "prefix"]
        /\ UNCHANGED <<lpc, stop, nerr, wresp, wflush, wsrc, bpc, bleft, hdepth>>
     \/ /\ ~IsNone(wresp[t])
        /\ CanAcquire(lock)
        /\ ~Serializable(wresp[t])
        /\ lock' = LockAfterRaise(t)
        /\ Raise(t, CauseSerialize)
        /\ UNCHANGED <<wdata, wk, wn>>
  /\ UNCHANGED <<evars, hstate, codec, inp, pos, msg, request, nread, out, flushed, faultsLeft,
                 hemitLeft, hcalls, hrets, wlog>>

\* lines 101-102, encodeUvarint(self._out, len(data)): one write per byte
WPrefix(t) ==
  /\ wpc[t] = "prefix"
  /\ LET enc == encodeUvarint(Small(Len(wdata[t]))) IN
     \/ /\ out' = OutWrite(out, Chunk(t, "len", <<enc[wk[t] + 1]>>))
        /\ wk' = [wk EXCEPT ![t] = @ + 1]
        /\ wpc' = [wpc EXCEPT ![t] = IF wk[t] + 1 = Len(enc) THEN "payload" ELSE "prefix"]
        /\ UNCHANGED <<lock, faultsLeft, lpc, stop, nerr, wresp, wflush, wsrc,
                       bpc, bleft, hdepth>>
     \/ /\ faultsLeft > 0
        /\ faultsLeft' = faultsLeft - 1
        /\ lock' = LockAfterRaise(t)
        /\ Raise(t, CauseWrite)
        /\ UNCHANGED <<out, wk>>
  /\ UNCHANGED <<evars, hstate, codec, inp, pos, msg, request, nread, flushed, wdata, wn,
                 hemitLeft, hcalls, hrets, wlog>>

\* lines 103-108: write the payload, flush if asked, release
WPayload(t) ==
  /\ wpc[t] = "payload"
  /\ \/ /\ out' = OutWrite(out, Chunk(t, "data", wdata[t]))
        /\ flushed' = IF wflush[t] THEN Len(out') ELSE flushed
        /\ lock' = LockAfterReturn(t)
        /\ wlog' = Append(wlog, [t |-> t, n |-> wn[t], data |-> wdata[t]])
        /\ Return(t)
        /\ UNCHANGED faultsLeft
     \/ /\ faultsLeft > 0
        /\ faultsLeft' = faultsLeft - 1
        /\ lock' = LockAfterRaise(t)
        /\ Raise(t, CauseWrite)
        /\ UNCHANGED <<out, flushed, wlog>>
     \/ /\ wflush[t]
        /\ faultsLeft > 0
        /\ faultsLeft' = faultsLeft - 1
        /\ out' = OutWrite(out, Chunk(t, "data", wdata[t]))
        /\ lock' = LockAfterRaise(t)
        /\ Raise(t, CauseWrite)
        /\ UNCHANGED <<flushed, wlog>>
  /\ UNCHANGED <<evars, hstate, codec, inp, pos, msg, request, nread, wdata, wk, wn,
                 hemitLeft, hcalls, hrets>>

(***************************************************************************)
(* The handler: any object with the seven methods (agent.py:46-60).  What  *)
(* a method does is the handler's choice: return a value, raise, emit      *)
(* through write_response, start a thread that emits.                      *)
(***************************************************************************)
\* a loop without the restore branch
DirectKindsNoRestore == {"info", "init", "snapshot"}

\* a loop that also answers point requests itself
DirectKindsWithPoint == {"info", "init", "snapshot", "restore", "point"}

\* requests whose handler result the loop writes back (lines 123-138)
DirectKinds == {"info", "init", "snapshot", "restore"}
\* requests the loop only hands to the handler (lines 139-144)
BatchKinds == {"begin", "point", "end"}

\* a dispatch that takes begin for end and end for begin
HandlerMethodSwapped(m) ==
  CASE m = "begin" -> "end_batch"
    [] m = "end"   -> "begin_batch"
    [] OTHER       -> m

\* the handler method each variant is dispatched to
HandlerMethod(m) ==
  CASE m = "begin" -> "begin_batch"
    [] m = "end"   -> "end_batch"
    [] OTHER       -> m

\* responses written without flush
NoFlush == FALSE

\* the flush argument of the loop's own responses (flush=True)
DirectFlush == TRUE

\* what a handler method may return
Returns(m) ==
  CASE m = "info"     -> {NoneResp, BadResp, Resp("info", 0, 0, 0)}
    [] m = "init"     -> {NoneResp, BadResp, Resp("init", 0, 0, 0), Resp("init", 1, 0, 0)}
    [] m = "snapshot" -> {NoneResp, BadResp, Resp("snapshot", 3, 0, 0)}
    [] m = "restore"  -> {NoneResp, BadResp, Resp("restore", 0, 0, 0), Resp("restore", 1, 0, 0)}
    [] OTHER          -> {NoneResp}

\* what a handler method may raise: any Exception, the module's EOF included
Raises == {"Exception", "EOF"}
Raised(x) == Resp("Raise", IF x = "EOF" THEN 2 ELSE 1, 0, 0)

\* the frames a handler writes itself
EmitResp == Resp("point", 1, 0, 0)
BigResp == Resp("point", 2, 0, BigPad)

(***************************************************************************)
(* Agent._read_loop, agent.py:111-156.                                     *)
(***************************************************************************)
\* self._in.read(size): size bytes, fewer when the stream ends first
Read(s, p, size) ==
  IF size.hi > 0 THEN SubSeq(s, p, Len(s))
  ELSE SubSeq(s, p, Min(p + size.lo - 1, Len(s)))

\* a position that counts the payload twice
NextPosTwice(p, consumed) == p + consumed + consumed

\* the position after a frame has been read
NextPos(p, consumed) == p + consumed

\* a loop that keeps msg from the iteration before
MsgKept(m) == m

\* line 114, msg = 'unknown' at the top of every iteration
MsgAtLoopStart(m) == "unknown"

\* a Keepalive answer that does not take the time of the request
KeepaliveRespZero(req) == Resp("keepalive", 0, 0, 0)

\* the Keepalive answer, lines 130-131
KeepaliveResp(req) == Resp("keepalive", req.a, 0, 0)

\* lines 114-146 up to the handler call: read one frame, parse, dispatch
ReadDispatch ==
  /\ lpc = "read"
  /\ LET d == decodeUvarint32(inp, pos)
         m0 == MsgAtLoopStart(msg)
     IN
     IF d.st = "EOF"
       THEN /\ pos' = d.pos
            /\ lpc' = "stopped"
            /\ stop' = "eof"
            /\ msg' = m0
            /\ UNCHANGED <<request, nread, nerr, wpc, wresp, wflush, wsrc,
                           hdepth, hcalls>>
     ELSE IF d.st = "error"
       THEN /\ pos' = d.pos
            /\ msg' = m0
            /\ nread' = nread + 1
            /\ EnterFatal(m0, CauseVarint)
            /\ UNCHANGED <<request, stop, hcalls>>
     ELSE LET size == d.val
              data == Read(inp, d.pos, size)
              p == ParseFromString(data)
          IN  /\ pos' = NextPos(d.pos, Len(data))
              /\ nread' = nread + 1
              /\ request' = p.req
              /\ IF ~p.ok
                   THEN /\ msg' = m0
                        /\ EnterFatal(m0, CauseParse)
                        /\ UNCHANGED <<stop, hcalls>>
                 ELSE IF p.req.kind \in DirectKinds \cup BatchKinds
                   THEN /\ msg' = p.req.kind
                        /\ lpc' = "handler"
                        /\ hdepth' = hdepth + 1
                        /\ hcalls' = Append(hcalls,
                                       [m |-> HandlerMethod(p.req.kind), i |-> nread + 1,
                                        a |-> p.req.a])
                        /\ UNCHANGED <<stop, nerr, wpc, wresp, wflush, wsrc>>
                 ELSE IF p.req.kind = "keepalive"
                   THEN /\ msg' = "keepalive"
                        /\ lpc' = "respond"
                        /\ CallWrite(LoopT, KeepaliveResp(p.req), DirectFlush, "direct")
                        /\ UNCHANGED <<stop, nerr, hdepth, hcalls>>
                 ELSE /\ msg' = "none"
                      /\ UNCHANGED <<lpc, stop, nerr, wpc, wresp, wflush, wsrc,
                                     hdepth, hcalls>>
  /\ UNCHANGED <<evars, hstate, codec, inp, lock, out, flushed, faultsLeft, wdata, wk, wn, bpc, bleft,
                 hemitLeft, hrets, wlog>>

\* the handler method returns; lines 125, 128, 135, 138 write its value
HandlerReturn ==
  /\ lpc = "handler"
  /\ wpc[LoopT] = "none"
  /\ \E v \in Returns(msg) :
       /\ hdepth' = hdepth - 1
       /\ hrets' = Append(hrets, [i |-> nread, v |-> v])
       /\ IF msg \in DirectKinds
            THEN /\ lpc' = "respond"
                 /\ CallWrite(LoopT, v, DirectFlush, "direct")
            ELSE /\ lpc' = "read"
                 /\ UNCHANGED <<wpc, wresp, wflush, wsrc>>
  /\ UNCHANGED <<evars, hstate, codec, inp, pos, msg, request, nread, stop, nerr, lock, out, flushed,
                 faultsLeft, wdata, wk, wn, bpc, bleft, hemitLeft, hcalls, wlog>>

\* the handler method raises; lines 147-156
HandlerRaise ==
  /\ lpc = "handler"
  /\ wpc[LoopT] = "none"
  /\ \E x \in Raises :
       /\ hrets' = Append(hrets, [i |-> nread, v |-> Raised(x)])
       /\ IF x = "EOF"
            THEN /\ lpc' = "stopped"
                 /\ stop' = "eof"
                 /\ hdepth' = 0
                 /\ UNCHANGED <<nerr, wpc, wresp, wflush, wsrc>>
            ELSE /\ EnterFatal(msg, CauseHandler)
                 /\ UNCHANGED stop
  /\ UNCHANGED <<evars, hstate, codec, inp, pos, msg, request, nread, lock, out, flushed,
                 faultsLeft, wdata, wk, wn, bpc, bleft, hemitLeft, hcalls, wlog>>

\* the handler calls self._agent.write_response(response) inside a callback
HandlerEmit ==
  /\ lpc = "handler"
  /\ wpc[LoopT] = "none"
  /\ hemitLeft > 0
  /\ hemitLeft' = hemitLeft - 1
  /\ CallWrite(LoopT, EmitResp, FALSE, "emit")
  /\ UNCHANGED <<evars, hstate, codec, inp, pos, lpc, msg, request, nread, stop, nerr, lock, out, flushed,
                 faultsLeft, wdata, wk, wn, bpc, bleft, hdepth, hcalls, hrets, wlog>>

\* the handler starts a thread that will call write_response KFrames times
HandlerSpawn(e) ==
  /\ lpc = "handler"
  /\ wpc[LoopT] = "none"
  /\ bpc[e] = "off"
  /\ bpc' = [bpc EXCEPT ![e] = "run"]
  /\ bleft' = [bleft EXCEPT ![e] = KFrames]
  /\ CallWrite(e, BigResp, FALSE, "bg")
  /\ UNCHANGED <<evars, hstate, codec, inp, pos, lpc, msg, request, nread, stop, nerr, lock, out, flushed,
                 faultsLeft, wdata, wk, wn, hemitLeft, hdepth, hcalls, hrets, wlog>>

\* one Agent, start() called once, the handler free to start threads
Init == InitWith(StreamsCut(MaxReqs))

\* the same Agent with a handler that starts no thread, on longer inputs
InitSeq == InitWith(StreamsCut(MaxSeqReqs))

Next ==
  \/ ReadDispatch
  \/ HandlerReturn
  \/ HandlerRaise
  \/ HandlerEmit
  \/ \E e \in Emitters : HandlerSpawn(e)
  \/ \E t \in Threads : WEnter(t) \/ WPrefix(t) \/ WPayload(t)

NextSeq ==
  \/ ReadDispatch
  \/ HandlerReturn
  \/ HandlerRaise
  \/ HandlerEmit
  \/ \E t \in Threads : WEnter(t) \/ WPrefix(t) \/ WPayload(t)

Spec == Init /\ [][Next]_vars

(***************************************************************************)
(* The codec alone: a value is written with encodeUvarint to a stream that *)
(* holds other bytes after it, and read back with decodeUvarint32.         *)
(***************************************************************************)
\* low parts: the ends of the one- to four-byte ranges, and one other value
CodecLows ==
  {0, 1, 300, varintMask, varintMoreMask,
   2 ^ (2 * shiftSize) - 1, 2 ^ (2 * shiftSize),
   2 ^ (3 * shiftSize) - 1, 2 ^ (3 * shiftSize), 2 ^ LoBits - 1}
CodecValues == {Wide(h, l) : h \in 0..MaxCodecHi, l \in CodecLows}
\* what follows the value on the stream
CodecTails == {<<>>, <<1>>, <<255, 255>>}

avars == <<inp, pos, lpc, msg, request, nread, stop, nerr, lock, out, flushed,
           faultsLeft, wpc, wresp, wflush, wsrc, wdata, wk, wn, bpc, bleft,
           hemitLeft, hdepth, hcalls, hrets, wlog, hstate,
           peerSnap, waiter, server, hq>>

InitCodec ==
  /\ InitAgent({<<>>})
  /\ hstate = AvgNew
  /\ peerSnap = NoSnapshot
  /\ waiter = NoWaiter
  /\ server = NoServer
  /\ hq = HqIdle
  /\ codec \in {[NoCodec EXCEPT !.pc = "value", !.v = v, !.tail = t] :
                  v \in CodecValues, t \in CodecTails}

\* encodeUvarint(writer, value)
Encode ==
  /\ codec.pc = "value"
  /\ codec' = [codec EXCEPT !.pc = "encoded", !.enc = encodeUvarint(codec.v)]
  /\ UNCHANGED avars

\* decodeUvarint32(reader) on what was written and what follows it
Decode ==
  /\ codec.pc = "encoded"
  /\ codec' = [codec EXCEPT !.pc = "decoded",
                             !.res = decodeUvarint32(codec.enc \o codec.tail, 1)]
  /\ UNCHANGED avars

NextCodec ==
  \/ Encode
  \/ Decode

CodecSpec == InitCodec /\ [][NextCodec]_vars

SeqSpec == InitSeq /\ [][NextSeq]_vars

(***************************************************************************)
(* The moving-average handler, examples/moving_avg/moving_avg.py, behind   *)
(* the Agent: its init and restore methods.  The field a of an Init or     *)
(* Restore request stands for the options or the snapshot it carries.      *)
(***************************************************************************)
\* an option value: the fields of an OptionValue not set read as '' and 0
StringValue(x) == [stringValue |-> x, intValue |-> 0]
IntValue(n) == [stringValue |-> "", intValue |-> n]
Option(name, values) == [name |-> name, values |-> values]

\* the options of the Init requests: field and size 2; none; a size of 0; an
\* empty as; field and size 5; a size option that carries no value
InitOptions(a) ==
  CASE a = 1 -> <<Option("field", <<StringValue("value")>>), Option("size", <<IntValue(2)>>)>>
    [] a = 2 -> <<>>
    [] a = 3 -> <<Option("field", <<StringValue("value")>>), Option("size", <<IntValue(0)>>)>>
    [] a = 4 -> <<Option("field", <<StringValue("value")>>), Option("size", <<IntValue(2)>>),
                  Option("as", <<StringValue("")>>)>>
    [] a = 6 -> <<Option("field", <<StringValue("value")>>), Option("size", <<IntValue(5)>>)>>
    [] OTHER -> <<Option("field", <<StringValue("value")>>), Option("size", <<>>)>>
GoodInits == {1}
BadInits == {2, 3, 4, 5}

\* lines 74-80: opt.values[0] raises on an option without values
RECURSIVE ApplyOptions(_, _)
ApplyOptions(h, opts) ==
  IF opts = <<>> THEN [raised |-> FALSE, h |-> h]
  ELSE LET opt == Head(opts) IN
       IF opt.name \notin {"field", "size", "as"} THEN ApplyOptions(h, Tail(opts))
       ELSE IF opt.values = <<>> THEN [raised |-> TRUE, h |-> h]
       ELSE ApplyOptions(
              CASE opt.name = "field" -> [h EXCEPT !.field = opt.values[1].stringValue]
                [] opt.name = "size"  -> [h EXCEPT !.size = opt.values[1].intValue]
                [] OTHER              -> [h EXCEPT !.as = opt.values[1].stringValue],
              Tail(opts))

\* the texts init puts together: ' must supply field name' (1),
\* ' must supply window size' (2), ' invalid as name' (4)
InitError(h) ==
  (IF h.field = NoField THEN 1 ELSE 0) + (IF h.size = 0 THEN 2 ELSE 0)
    + (IF h.as = "" THEN 4 ELSE 0)

\* AvgHandler.init, lines 71-96
InitResult(h, opts) ==
  LET r == ApplyOptions(h, opts) IN
  IF r.raised THEN [raised |-> TRUE, h |-> r.h, resp |-> NoneResp]
  ELSE [raised |-> FALSE, h |-> r.h,
        resp |-> Resp("init", IF InitError(r.h) = 0 THEN 1 ELSE 0, InitError(r.h), 0)]

\* a float is kept as a whole number of 1/AvgScale: the averages of up to
\* six whole values are such numbers
Float(n) == n * AvgScale

\* a number in a JSON text, written with or without a fraction
JInt(n) == [t |-> "int", v |-> n]
JFloat(f) == [t |-> "float", v |-> f]

\* int(x) and float(x) of a number json.loads has read
int(j) == IF j.t = "int" THEN j.v ELSE j.v \div AvgScale
float(j) == IF j.t = "float" THEN j.v ELSE Float(j.v)

\* AvgHandler.state.__init__, lines 20-23
state(size) == [size |-> size, window |-> <<>>, avg |-> 0]

\* an update that takes a window of size 0 for one that is not full
updateNoRaise(st, value) ==
  [raised |-> FALSE,
   st |-> [st EXCEPT !.avg = (value + Len(st.window) * @) \div (Len(st.window) + 1),
                     !.window = Append(@, value)]]

\* an update that leaves the oldest value in a full window
updateNoPop(st, value) ==
  LET l == Len(st.window) IN
  IF l = st.size
    THEN IF l = 0 THEN [raised |-> TRUE, st |-> st]
         ELSE [raised |-> FALSE,
               st |-> [st EXCEPT !.avg = @ + (value \div l) - (st.window[1] \div l),
                                 !.window = Append(@, value)]]
    ELSE [raised |-> FALSE,
          st |-> [st EXCEPT !.avg = (value + l * @) \div (l + 1),
                            !.window = Append(@, value)]]

\* AvgHandler.state.update, lines 25-37: value/l raises ZeroDivisionError
\* for a window that is full at length 0
update(st, value) ==
  LET l == Len(st.window) IN
  IF l = st.size
    THEN IF l = 0 THEN [raised |-> TRUE, st |-> st]
         ELSE [raised |-> FALSE,
               st |-> [st EXCEPT !.avg = @ + (value \div l) - (st.window[1] \div l),
                                 !.window = Append(Tail(@), value)]]
    ELSE [raised |-> FALSE,
          st |-> [st EXCEPT !.avg = (value + l * @) \div (l + 1),
                            !.window = Append(@, value)]]

\* AvgHandler.state.snapshot, lines 41-46, as json.dumps writes it
state_snapshot(st) ==
  [size |-> JInt(st.size),
   window |-> [i \in 1..Len(st.window) |-> JFloat(st.window[i])],
   avg |-> JFloat(st.avg)]

\* a restore that leaves the window empty
state_restore_no_window(data) ==
  [size |-> int(data.size), window |-> <<>>, avg |-> float(data.avg)]

\* AvgHandler.state.restore, lines 48-51
state_restore(data) ==
  [size |-> int(data.size),
   window |-> [i \in 1..Len(data.window) |-> float(data.window[i])],
   avg |-> float(data.avg)]

\* the snapshots of the Restore requests: one group, well formed; no JSON;
\* JSON that is no object; one group whose entry lacks its keys; and the
\* snapshot of the last Snapshot response
Snapshot(json, object, groups) == [json |-> json, object |-> object, groups |-> groups]
EchoSnapshot == 9
Snapshots(a) ==
  CASE a = 1 -> Snapshot(TRUE, TRUE, <<[group |-> "g", ok |-> TRUE,
                                       data |-> state_snapshot(state(2))]>>)
    [] a = 2 -> Snapshot(FALSE, FALSE, <<>>)
    [] a = 3 -> Snapshot(TRUE, FALSE, <<>>)
    [] a = EchoSnapshot -> peerSnap
    [] OTHER -> Snapshot(TRUE, TRUE, <<[group |-> "g", ok |-> FALSE,
                                       data |-> state_snapshot(state(0))]>>)
GoodSnapshots == {1}
BadSnapshots == {2, 3, 4}

\* self._state[group] = value
SetGroup(st, group, value) ==
  [g \in DOMAIN st \cup {group} |-> IF g = group THEN value ELSE st[g]]

\* lines 113-115: every group gets a new state(0), which then restores
\* itself from its entry and raises if the entry does not fit
RECURSIVE RestoreGroups(_, _)
RestoreGroups(h, groups) ==
  IF groups = <<>> THEN [raised |-> FALSE, h |-> h]
  ELSE LET e == Head(groups) IN
       IF ~e.ok
         THEN [raised |-> TRUE, h |-> [h EXCEPT !.state = SetGroup(@, e.group, state(0))]]
         ELSE RestoreGroups([h EXCEPT !.state = SetGroup(@, e.group, state_restore(e.data))],
                            Tail(groups))

\* the texts of restore's error: none (0), str(e) of what was caught (1-3)
RestoreError(snap, r) ==
  IF ~snap.json THEN 1 ELSE IF ~snap.object THEN 2 ELSE IF r.raised THEN 3 ELSE 0

\* AvgHandler.restore, lines 108-125: whatever is raised is caught
RestoreResult(h, snap) ==
  LET r == IF snap.json /\ snap.object THEN RestoreGroups(h, snap.groups)
           ELSE [raised |-> FALSE, h |-> h]
      err == RestoreError(snap, r)
  IN  [raised |-> FALSE, h |-> r.h,
       resp |-> Resp("restore", IF err = 0 THEN 1 ELSE 0, err, 0)]

\* a begin_batch or end_batch that returns
Supported(h) == [raised |-> FALSE, h |-> h, resp |-> NoneResp]

\* AvgHandler.begin_batch, AvgHandler.end_batch, lines 127-128, 145-146:
\* raise Exception("not supported")
NotSupported(h) == [raised |-> TRUE, h |-> h, resp |-> NoneResp]

\* a handler method has run to its end or raised: its result goes to
\* write_response (agent.py lines 123-138) or is dropped (139-144), its
\* exception goes to the except block
HandlerDone(r) ==
  /\ hstate' = r.h
  /\ IF r.raised
       THEN /\ hrets' = Append(hrets, [i |-> nread, v |-> Raised("Exception")])
            /\ EnterFatal(msg, CauseHandler)
       ELSE /\ hrets' = Append(hrets, [i |-> nread, v |-> r.resp])
            /\ hdepth' = hdepth - 1
            /\ UNCHANGED nerr
            /\ IF msg \in DirectKinds
                 THEN /\ lpc' = "respond"
                      /\ CallWrite(LoopT, r.resp, DirectFlush, "direct")
                 ELSE /\ lpc' = "read"
                      /\ UNCHANGED <<wpc, wresp, wflush, wsrc>>
  /\ peerSnap' = (IF "snap" \in DOMAIN r THEN r.snap ELSE peerSnap)
  /\ hq' = HqIdle
  /\ UNCHANGED <<waiter, server, codec, inp, pos, msg, request, nread, stop, lock, out, flushed,
                 faultsLeft, wdata, wk, wn, bpc, bleft, hemitLeft, hcalls, wlog>>

AvgHandler_init ==
  /\ lpc = "handler"
  /\ msg = "init"
  /\ HandlerDone(InitResult(hstate, InitOptions(request.a)))

AvgHandler_restore ==
  /\ lpc = "handler"
  /\ msg = "restore"
  /\ HandlerDone(RestoreResult(hstate, Snapshots(request.a)))

(***************************************************************************)
(* A handler method that writes responses itself: its body runs, then each *)
(* response goes through write_response on the loop's thread, then the     *)
(* method returns.                                                         *)
(***************************************************************************)
HandlerUnchanged ==
  UNCHANGED <<peerSnap, waiter, server, codec, inp, pos, lpc, msg, request, nread, stop,
              nerr, lock, out, flushed, faultsLeft, wdata, wk, wn, bpc, bleft,
              hemitLeft, hdepth, hcalls, hrets, wlog>>

\* the body of a method has run: r.h is the handler now, r.emit the
\* responses of the write_response calls it goes on to make
HandlerRuns(r) ==
  IF r.raised
    THEN HandlerDone([raised |-> TRUE, h |-> r.h, resp |-> NoneResp])
    ELSE /\ hstate' = r.h
         /\ hq' = [run |-> TRUE, emit |-> r.emit]
         /\ HandlerUnchanged
         /\ UNCHANGED <<wpc, wresp, wflush, wsrc>>

\* self._agent.write_response(response) in a handler method
Handler_write ==
  /\ lpc = "handler"
  /\ hq.run
  /\ wpc[LoopT] = "none"
  /\ hq.emit # <<>>
  /\ hq' = [hq EXCEPT !.emit = Tail(@)]
  /\ CallWrite(LoopT, Head(hq.emit), FALSE, "emit")
  /\ UNCHANGED hstate
  /\ HandlerUnchanged

\* the method returns None
Handler_return ==
  /\ lpc = "handler"
  /\ hq.run
  /\ wpc[LoopT] = "none"
  /\ hq.emit = <<>>
  /\ HandlerDone([raised |-> FALSE, h |-> hstate, resp |-> NoneResp])

\* the groups of self._state in the order iteritems gives them
RECURSIVE iteritems(_)
iteritems(st) ==
  IF DOMAIN st = {} THEN <<>>
  ELSE LET g == CHOOSE x \in DOMAIN st : TRUE IN
       <<g>> \o iteritems([x \in DOMAIN st \ {g} |-> st[x]])

\* AvgHandler.snapshot, lines 98-106
AvgHandler_snapshot ==
  /\ lpc = "handler"
  /\ msg = "snapshot"
  /\ LET groups == iteritems(hstate.state)
         data == [i \in 1..Len(groups) |->
                    [group |-> groups[i], ok |-> TRUE,
                     data |-> state_snapshot(hstate.state[groups[i]])]]
     IN  HandlerDone([raised |-> FALSE, h |-> hstate,
                      resp |-> Resp("snapshot", Len(groups), 0, 0),
                      snap |-> Snapshot(TRUE, TRUE, data)])

\* the field a of a Point request stands for its group and its value
PointGroup(a) == IF a < 10 THEN "g" ELSE "h"
PointValue(a) == Float(a % 10)

\* the points of the requests: 1 and 3 for group g, 2 for group h
PointCodes == {1, 3, 12}

\* AvgHandler.point, lines 130-143: fieldsDouble[None] raises TypeError; a
\* new group gets its state before update runs
PointResult(h, a) ==
  LET g == PointGroup(a)
      st == IF g \in DOMAIN h.state THEN h.state[g] ELSE state(h.size)
      u == update(st, PointValue(a))
  IN  IF h.field = NoField THEN [raised |-> TRUE, h |-> h, emit |-> <<>>]
      ELSE [raised |-> u.raised,
            h |-> [h EXCEPT !.state = SetGroup(@, g, u.st)],
            emit |-> <<Resp("point", a, u.st.avg, 0)>>]

AvgHandler_point ==
  /\ lpc = "handler"
  /\ msg = "point"
  /\ ~hq.run
  /\ HandlerRuns(PointResult(hstate, request.a))

AvgHandler_begin_batch ==
  /\ lpc = "handler"
  /\ msg = "begin"
  /\ HandlerDone(NotSupported(hstate))

AvgHandler_end_batch ==
  /\ lpc = "handler"
  /\ msg = "end"
  /\ HandlerDone(NotSupported(hstate))

AvgFrames ==
  {FrameOf(Req("init", a)) : a \in GoodInits \cup BadInits}
    \cup {FrameOf(Req("restore", a)) : a \in GoodSnapshots \cup BadSnapshots}
    \cup {FrameOf(Req("keepalive", 7))}
    \cup {FrameOf(Req(k, 1)) : k \in {"begin", "end"}}

RECURSIVE AvgStreams(_)
AvgStreams(n) ==
  IF n = 0 THEN {<<>>}
  ELSE AvgStreams(n - 1) \cup {s \o f : s \in AvgStreams(n - 1), f \in AvgFrames}

InitAvg == InitWith(AvgStreams(MaxAvgReqs))

NextAvg ==
  \/ ReadDispatch
  \/ AvgHandler_init
  \/ AvgHandler_restore
  \/ AvgHandler_begin_batch
  \/ AvgHandler_end_batch
  \/ WEnter(LoopT)
  \/ WPrefix(LoopT)
  \/ WPayload(LoopT)

AvgSpec == InitAvg /\ [][NextAvg]_vars

\* the moving-average handler given points, snapshots and restores
SnapFrames ==
  {FrameOf(Req("point", a)) : a \in PointCodes}
    \cup {FrameOf(Req("snapshot", 0))}
    \cup {FrameOf(Req("restore", a)) : a \in {EchoSnapshot, 4}}

\* no Init request, one that succeeds or one that fails for its size of 0,
\* then up to n other requests
RECURSIVE SnapStreams(_)
SnapStreams(n) ==
  IF n = 0 THEN {<<>>, FrameOf(Req("init", 1)), FrameOf(Req("init", 3))}
  ELSE SnapStreams(n - 1) \cup {s \o f : s \in SnapStreams(n - 1), f \in SnapFrames}

InitSnap == InitWith(SnapStreams(MaxSnapReqs))

NextSnap ==
  \/ ReadDispatch
  \/ AvgHandler_init
  \/ AvgHandler_restore
  \/ AvgHandler_snapshot
  \/ AvgHandler_point
  \/ Handler_write
  \/ Handler_return
  \/ WEnter(LoopT)
  \/ WPrefix(LoopT)
  \/ WPayload(LoopT)

SnapSpec == InitSnap /\ [][NextSnap]_vars

\* every started thread keeps running: the interpreter schedules each
\* runnable thread again and again
LoopStep ==
  \/ ReadDispatch
  \/ HandlerReturn
  \/ HandlerRaise
  \/ HandlerEmit
  \/ \E e \in Emitters : HandlerSpawn(e)
  \/ WEnter(LoopT) \/ WPrefix(LoopT) \/ WPayload(LoopT)

BgStep(e) == WEnter(e) \/ WPrefix(e) \/ WPayload(e)

FairSpec ==
  /\ Spec
  /\ WF_vars(LoopStep)
  /\ \A e \in Emitters : WF_vars(BgStep(e))

(***************************************************************************)
(* The outliers handler, examples/outliers/outliers.py, behind the Agent.  *)
(* The field a of a Point request is the value of the point's field; the   *)
(* scale and the bounds are kept in halves and quarters, so that all       *)
(* numbers are integers.                                                   *)
(***************************************************************************)
\* OutliersHandler.__init__: _scale is 1.5, _begin_response is None
OutNew == [field |-> NoField, scale2 |-> 3, entries |-> <<>>, begin |-> NoneResp]

\* a reset that keeps what was collected
resetKeeps(entries) == entries

\* state.reset
reset(entries) == <<>>

\* sorted(self._entries, key=lambda x: x[0]): a stable sort
RECURSIVE sorted(_)
sorted(e) ==
  IF e = <<>> THEN <<>>
  ELSE LET x == e[Len(e)]
           t == sorted(SubSeq(e, 1, Len(e) - 1))
           k == Cardinality({i \in 1..Len(t) : t[i].v <= x.v})
       IN  SubSeq(t, 1, k) \o <<x>> \o SubSeq(t, k + 1, Len(t))

\* state.median with the integer division of l / 2; data[left] and
\* data[right] raise IndexError when they are past the end; median2 is
\* twice the median
median(data) ==
  LET l == Len(data)
      m == l \div 2
  IN  IF l % 2 = 0
        THEN IF m + 1 >= l
               THEN [raised |-> TRUE, left |-> m, right |-> m + 1, median2 |-> 0]
               ELSE [raised |-> FALSE, left |-> m, right |-> m + 1,
                     median2 |-> data[m + 1].v + data[m + 2].v]
        ELSE [raised |-> FALSE, left |-> m, right |-> m, median2 |-> 2 * data[m + 1].v]

\* state.bounds: lower4 and upper4 are four times lower and upper
bounds(entries, scale2) ==
  LET e == sorted(entries)
      failed == [raised |-> TRUE, entries |-> e, first |-> 0, third |-> 0,
                 lower4 |-> 0, upper4 |-> 0]
      a == median(e)
  IN  IF a.raised THEN failed
      ELSE LET b == median(SubSeq(e, 1, a.right)) IN
           IF b.raised THEN failed
           ELSE LET c == median(SubSeq(e, a.left + 2, Len(e))) IN
                IF c.raised THEN failed
                ELSE LET iqr2 == c.median2 - b.median2 IN
                     [raised |-> FALSE, entries |-> e, first |-> b.right, third |-> c.left,
                      lower4 |-> 2 * b.median2 - iqr2 * scale2,
                      upper4 |-> 2 * c.median2 + iqr2 * scale2]

\* state.outliers: the points below lower up to the first that is not, and
\* the points above upper after index third
outliers(entries, scale2) ==
  LET b == bounds(entries, scale2)
      e == b.entries
  IN  IF b.raised THEN [raised |-> TRUE, entries |-> e, points |-> <<>>]
      ELSE LET k == CHOOSE n \in 0..b.first :
                      /\ \A i \in 1..n : 4 * e[i].v < b.lower4
                      /\ n = b.first \/ ~(4 * e[n + 1].v < b.lower4)
               up == SelectSeq(SubSeq(e, b.third + 2, Len(e)),
                               LAMBDA x : 4 * x.v > b.upper4)
           IN  [raised |-> FALSE, entries |-> e,
                points |-> [i \in 1..k |-> e[i].p] \o [i \in 1..Len(up) |-> up[i].p]]

\* OutliersHandler.init, lines 83-103, for options without a scale
OutliersHandler_init ==
  /\ lpc = "handler"
  /\ msg = "init"
  /\ LET opts == InitOptions(request.a)
         F == {i \in 1..Len(opts) : opts[i].name = "field"}
         h == IF F = {} THEN hstate
              ELSE [hstate EXCEPT !.field =
                      opts[CHOOSE i \in F : \A j \in F : j <= i].values[1].stringValue]
         error == IF h.field = NoField THEN 1 ELSE 0
     IN  HandlerDone([raised |-> FALSE, h |-> h,
                      resp |-> Resp("init", IF error = 0 THEN 1 ELSE 0, error, 0)])

\* lines 118-124
OutliersHandler_begin_batch ==
  /\ lpc = "handler"
  /\ msg = "begin"
  /\ HandlerDone([raised |-> FALSE,
                  h |-> [hstate EXCEPT !.entries = reset(@),
                                       !.begin = Resp("begin", request.a, 0, 0)],
                  resp |-> NoneResp])

\* lines 126-128: fieldsDouble[None] raises TypeError
OutliersHandler_point ==
  /\ lpc = "handler"
  /\ msg = "point"
  /\ HandlerDone([raised |-> hstate.field = NoField,
                  h |-> IF hstate.field = NoField THEN hstate
                        ELSE [hstate EXCEPT !.entries =
                                Append(@, [v |-> request.a, p |-> request])],
                  resp |-> NoneResp])

\* lines 130-145: outliers may raise IndexError, _begin_response may be None
OutliersHandler_end_batch ==
  /\ lpc = "handler"
  /\ msg = "end"
  /\ ~hq.run
  /\ LET o == outliers(hstate.entries, hstate.scale2)
         h == [hstate EXCEPT !.entries = o.entries]
         begin == [hstate.begin EXCEPT !.b = Len(o.points)]
     IN  HandlerRuns(
           [raised |-> o.raised \/ hstate.begin = NoneResp,
            h |-> IF o.raised \/ hstate.begin = NoneResp THEN h
                  ELSE [h EXCEPT !.begin = begin],
            emit |-> <<begin>>
                       \o [i \in 1..Len(o.points) |-> Resp("point", o.points[i].a, 0, 0)]
                       \o <<Resp("end", request.a, 0, 0)>>])

OutValues == {1, 9}

OutFrames ==
  {FrameOf(Req(k, 1)) : k \in {"begin", "end"}}
    \cup {FrameOf(Req("point", v)) : v \in OutValues}

\* an Init request or none, then up to n requests of a batch
RECURSIVE OutStreams(_)
OutStreams(n) ==
  IF n = 0 THEN {<<>>, FrameOf(Req("init", 1))}
  ELSE OutStreams(n - 1) \cup {s \o f : s \in OutStreams(n - 1), f \in OutFrames}

InitOut ==
  /\ InitAgent(OutStreams(MaxOutReqs))
  /\ InitRest
  /\ hstate = OutNew

NextOut ==
  \/ ReadDispatch
  \/ OutliersHandler_init
  \/ OutliersHandler_begin_batch
  \/ OutliersHandler_point
  \/ OutliersHandler_end_batch
  \/ Handler_write
  \/ Handler_return
  \/ WEnter(LoopT)
  \/ WPrefix(LoopT)
  \/ WPayload(LoopT)

OutSpec == InitOut /\ [][NextOut]_vars

(***************************************************************************)
(* Agent.wait, agent.py:86-89, called by a thread of its own once the      *)
(* Agent has been started.                                                 *)
(***************************************************************************)
\* a join that returns while the thread still runs
JoinedEarly(l) == TRUE

\* self._thread.join() returns once _read_loop has been left
Joined(l) == l = "stopped"

\* a close of the output that throws away what was not flushed
CloseDrops(o, f) == f

\* self._out.close(): the stream flushes what it holds before it closes
CloseFlushes(o, f) == Len(o)

Agent_wait ==
  /\ \/ /\ waiter.pc = "idle"
        /\ waiter' = [waiter EXCEPT !.pc = "join"]
     \/ /\ waiter.pc = "join"
        /\ Joined(IF waiter.thread = "first" THEN lpc ELSE waiter.second)
        /\ waiter' = [waiter EXCEPT !.pc = "close_in"]
     \/ /\ waiter.pc = "close_in"
        /\ waiter' = [waiter EXCEPT !.pc = "close_out", !.inClosed = TRUE]
     \/ /\ waiter.pc = "close_out"
        /\ waiter' = [waiter EXCEPT !.pc = "returned", !.outClosed = TRUE]
  /\ flushed' = (IF waiter.pc = "close_out" THEN CloseFlushes(out, flushed) ELSE flushed)
  /\ UNCHANGED <<inp, pos, lpc, msg, request, nread, stop, nerr, lock, out,
                 faultsLeft, wpc, wresp, wflush, wsrc, wdata, wk, wn, bpc, bleft,
                 hemitLeft, hdepth, hcalls, hrets, wlog, hstate, codec, peerSnap, server, hq>>

InitWait == InitWith(StreamsCut(MaxReqs))

NextWait ==
  \/ NextSeq
  \/ Agent_wait

WaitSpec == InitWait /\ [][NextWait]_vars

(***************************************************************************)
(* start() called again on the same Agent, agent.py:80-82: a new Thread on *)
(* _read_loop is made and started whatever self._thread holds, and         *)
(* self._thread then names the new thread only.  The second loop reads     *)
(* from the same self._in; of its iterations only the reading is followed  *)
(* here, not the handler calls and responses.                              *)
(***************************************************************************)
Agent_start ==
  /\ waiter.pc = "idle"
  /\ waiter.second = "none"
  /\ waiter' = [waiter EXCEPT !.thread = "second", !.second = "running"]
  /\ UNCHANGED <<inp, pos, lpc, msg, request, nread, stop, nerr, lock, out, flushed,
                 faultsLeft, wpc, wresp, wflush, wsrc, wdata, wk, wn, bpc, bleft,
                 hemitLeft, hdepth, hcalls, hrets, wlog, hstate, codec, peerSnap, server, hq>>

\* one iteration of the second thread's _read_loop: it leaves the loop at
\* the end of the input, on a closed input and on a length that does not
\* decode; after a frame it goes on, or leaves on an exception
SecondReadLoop ==
  /\ waiter.second = "running"
  /\ LET d == decodeUvarint32(inp, pos) IN
     IF waiter.inClosed \/ d.st # "ok"
       THEN /\ waiter' = [waiter EXCEPT !.second = "stopped"]
            /\ pos' = (IF waiter.inClosed THEN pos ELSE d.pos)
       ELSE /\ pos' = NextPos(d.pos, Len(Read(inp, d.pos, d.val)))
            /\ \E l \in {"running", "stopped"} : waiter' = [waiter EXCEPT !.second = l]
  /\ UNCHANGED <<inp, lpc, msg, request, nread, stop, nerr, lock, out, flushed,
                 faultsLeft, wpc, wresp, wflush, wsrc, wdata, wk, wn, bpc, bleft,
                 hemitLeft, hdepth, hcalls, hrets, wlog, hstate, codec, peerSnap, server, hq>>

NextStart ==
  \/ NextWait
  \/ Agent_start
  \/ SecondReadLoop

StartSpec == InitWait /\ [][NextStart]_vars

\* the loop's thread keeps running, and the thread that started the Agent
\* goes on to call wait()
DeliverSpec ==
  /\ WaitSpec
  /\ WF_vars(NextSeq)
  /\ WF_vars(Agent_wait)

(***************************************************************************)
(* Server, agent.py:197-220: serve has been called and listen has          *)
(* returned.  A connection thread runs the accepter's accept, which does   *)
(* ConnWork pieces of work on its connection and may raise at any of them. *)
(* stop is also called from outside, by a thread other than serve's.       *)
(***************************************************************************)
Conns == 1..MaxConns

NewServer ==
  [pc |-> "serving", listener |-> "open", path |-> TRUE, accepted |-> 0,
   errors |-> 0, handed |-> <<>>,
   conns |-> [i \in Conns |-> [st |-> "none", out |-> 0]],
   ext |-> "idle", stops |-> 0, rmfail |-> 0, raised |-> FALSE]

\* a serve that goes on accepting after an error of accept
AcceptRetried(sv) == [sv EXCEPT !.errors = @ + 1]

\* lines 211-212: whatever the loop raises ends it, and serve calls stop
AcceptFailed(sv) == [sv EXCEPT !.errors = @ + 1, !.pc = "close"]

\* lines 206-210: accept, makefile, and a new thread started on
\* self._accepter.accept with the connection
Accepted(sv) ==
  LET i == sv.accepted + 1 IN
  [sv EXCEPT !.accepted = i, !.handed = Append(@, i), !.conns[i].st = "running"]

\* an exception in a connection's thread that also ends serve
UncaughtEndsServe(sv, i) == [sv EXCEPT !.conns[i].st = "failed", !.pc = "close"]

\* an exception that leaves the target of a Thread ends that thread
Uncaught(sv, i) == [sv EXCEPT !.conns[i].st = "failed"]

\* a stop that lets the failure of os.remove out
RemoveFailedRaises(sv) == [sv EXCEPT !.rmfail = @ + 1, !.raised = TRUE]

\* lines 219-220: except: pass
RemoveFailed(sv) == [sv EXCEPT !.rmfail = @ + 1]

\* line 215: closing a closed socket does nothing
CloseListener(sv) == [sv EXCEPT !.listener = "closed"]

\* lines 216-220: os.remove raises when the path is not there
RemovePath(sv) == IF sv.path THEN [sv EXCEPT !.path = FALSE] ELSE RemoveFailed(sv)

ServerUnchanged ==
  UNCHANGED <<inp, pos, lpc, msg, request, nread, stop, nerr, lock, out, flushed,
              faultsLeft, wpc, wresp, wflush, wsrc, wdata, wk, wn, bpc, bleft,
              hemitLeft, hdepth, hcalls, hrets, wlog, hstate, codec, peerSnap, waiter, hq>>

\* the thread that called serve: the accept loop, then stop
Server_serve ==
  /\ \/ /\ server.pc = "serving"
        /\ server.listener = "open"
        /\ server.accepted < MaxConns
        /\ server' = Accepted(server)
     \/ /\ server.pc = "serving"
        /\ server.listener = "closed" \/ server.errors < MaxAcceptErrors
        /\ server' = AcceptFailed(server)
     \/ /\ server.pc = "close"
        /\ server' = [CloseListener(server) EXCEPT !.pc = "remove"]
     \/ /\ server.pc = "remove"
        /\ server' = [RemovePath(server) EXCEPT !.pc = "returned"]
  /\ ServerUnchanged

\* stop called by another thread
Server_stop ==
  /\ \/ /\ server.ext = "idle"
        /\ server.stops < MaxStops
        /\ server' = [CloseListener(server) EXCEPT !.ext = "remove"]
     \/ /\ server.ext = "remove"
        /\ server' = [RemovePath(server) EXCEPT !.ext = "idle", !.stops = @ + 1]
  /\ ServerUnchanged

\* the thread of connection i, in self._accepter.accept(conn, addr)
accepter_accept(i) ==
  /\ server.conns[i].st = "running"
  /\ \/ /\ server.conns[i].out < ConnWork
        /\ server' = [server EXCEPT !.conns[i].out = @ + 1]
     \/ /\ server.conns[i].out = ConnWork
        /\ server' = [server EXCEPT !.conns[i].st = "done"]
     \/ server' = Uncaught(server, i)
  /\ ServerUnchanged

InitServer ==
  /\ InitAgent({<<>>})
  /\ hstate = AvgNew
  /\ codec = NoCodec
  /\ peerSnap = NoSnapshot
  /\ waiter = NoWaiter
  /\ server = NewServer
  /\ hq = HqIdle

NextServer ==
  \/ Server_serve
  \/ Server_stop
  \/ \E i \in Conns : accepter_accept(i)

ServerSpec == InitServer /\ [][NextServer]_vars

(***************************************************************************)
(* Reading the streams back.                                               *)
(***************************************************************************)
\* the bytes on the output stream, in the order they were written
RECURSIVE Flatten(_)
Flatten(o) == IF o = <<>> THEN <<>> ELSE Head(o).b \o Flatten(Tail(o))

\* what a reader that uses decodeUvarint32 and read(size) gets from bytes s:
\* the payloads, and whether the stream ended on a frame boundary
RECURSIVE ParseStream(_, _)
ParseStream(s, p) ==
  LET d == decodeUvarint32(s, p) IN
  IF d.st = "EOF" THEN [whole |-> p > Len(s), frames |-> <<>>]
  ELSE IF d.st = "error" THEN [whole |-> FALSE, frames |-> <<>>]
  ELSE LET data == Read(s, d.pos, d.val)
           rest == ParseStream(s, d.pos + Len(data))
       IN  IF d.val # Small(Len(data))
             THEN [whole |-> FALSE, frames |-> <<>>]
             ELSE [whole |-> rest.whole, frames |-> <<data>> \o rest.frames]

\* the requests on the input, as a reader of the whole stream finds them; a
\* frame that cannot be decoded or parsed ends the list as "bad"
RECURSIVE Scan(_, _)
Scan(s, p) ==
  LET d == decodeUvarint32(s, p) IN
  IF d.st = "EOF" THEN <<>>
  ELSE IF d.st = "error" THEN <<Req("bad", 0)>>
  ELSE LET data == Read(s, d.pos, d.val)
           pr == ParseFromString(data)
       IN  IF ~pr.ok THEN <<Req("bad", 0)>>
           ELSE <<pr.req>> \o Scan(s, d.pos + Len(data))

\* the payload writes on the output, one per frame that was written whole
Payloads(o) == SelectSeq(o, LAMBDA c : c.part = "data")

\* thread t is between acquire and release of write_response
Writing(t) == wpc[t] \in {"prefix", "payload"}

(***************************************************************************)
(* C1.  Whatever threads call write_response concurrently, the bytes of    *)
(* two frames are never interleaved: the writes of one frame are adjacent  *)
(* on the output and in order, a frame starts only when the writer of the  *)
(* frame before it has left write_response, every frame that was written   *)
(* to its end is the varint of its length followed by its payload, and     *)
(* with no write cut short by an exception the output read back with       *)
(* decodeUvarint32 is exactly the completed frames, in order.              *)
(***************************************************************************)
C1_NoInterleaving ==
  /\ \A i \in 1..Len(out) :
       LET c == out[i] IN
       IF i > 1 /\ out[i - 1].t = c.t /\ out[i - 1].n = c.n
         THEN c.k = out[i - 1].k + 1
         ELSE /\ c.k = 0
              /\ i > 1 => ~(Writing(out[i - 1].t) /\ wn[out[i - 1].t] = out[i - 1].n)
  /\ \A i \in 1..Len(out) :
       out[i].part = "data" =>
         LET c == out[i]
             pre == [j \in 1..c.k |-> out[i - c.k + j - 1].b[1]]
             d == decodeUvarint32(pre, 1)
         IN  /\ i > c.k
             /\ d.st = "ok" /\ d.pos = c.k + 1 /\ d.val = Small(Len(c.b))
  /\ (faultsLeft = MaxFaults /\ lock = Free) =>
       LET r == ParseStream(Flatten(out), 1) IN
       /\ r.whole
       /\ r.frames = [i \in 1..Len(wlog) |-> wlog[i].data]

\* a background thread is in the middle of its two-byte length prefix while
\* the read loop waits in write_response
C1_Witness ==
  \E e \in Emitters :
    /\ wpc[e] = "prefix" /\ wk[e] = 1
    /\ wpc[LoopT] = "call" /\ wresp[LoopT].kind # "None"

(***************************************************************************)
(* C8.  The write lock is held by a thread exactly while that thread is    *)
(* between acquire and the end of its frame write; when a write_response   *)
(* call has ended, by return or by any exception, the lock is not held by  *)
(* the caller, so a held lock always has a holder that is still writing.   *)
(***************************************************************************)
C8_LockReleased ==
  /\ \A t \in Threads : Writing(t) <=> lock = t
  /\ lock # Free => lock \in Threads /\ Writing(lock)

\* a write raised after the length prefix was written, and the lock is free
C8_Witness ==
  /\ lpc = "fatal"
  /\ wresp[LoopT].b = CauseWrite
  /\ faultsLeft < MaxFaults
  /\ out # <<>> /\ out[Len(out)].part = "len"
  /\ lock = Free

(***************************************************************************)
(* What the claims about the loop read off a state.                        *)
(***************************************************************************)
\* the requests on the input, numbered as the loop reads them
Requests == Scan(inp, 1)

\* the handler method that answers each variant (agent.py:123-144)
MethodOf ==
  [info |-> "info", init |-> "init", snapshot |-> "snapshot", restore |-> "restore",
   begin |-> "begin_batch", point |-> "point", end |-> "end_batch"]

\* the handler calls the input asks for, in the order of its frames
ExpectedCalls ==
  LET R == Requests
      all == [i \in 1..Len(R) |->
                [m |-> IF R[i].kind \in DOMAIN MethodOf THEN MethodOf[R[i].kind] ELSE "-",
                 i |-> i, a |-> R[i].a]]
  IN  SelectSeq(all, LAMBDA x : x.m # "-")

IsPrefix(s, t) == Len(s) <= Len(t) /\ \A i \in 1..Len(s) : s[i] = t[i]

\* some handler method has raised
HandlerRaised == \E j \in 1..Len(hrets) : hrets[j].v.kind = "Raise"

\* the loop has finished request i and gone on to the next read
Moved(i) == nread > i \/ (nread = i /\ lpc = "read")

\* the payload writes of the loop's own answer to request i
DirectFrames(i) ==
  SelectSeq(out, LAMBDA c : c.t = LoopT /\ c.ri = i /\ c.part = "data" /\ c.src = "direct")

(***************************************************************************)
(* C2.  With start() called once, handler methods are invoked in exactly   *)
(* the order of the request frames on the input (the calls made so far are *)
(* a prefix of the calls the input asks for, all of them once the loop has *)
(* read to the end of the stream) and at most one handler method is        *)
(* executing at any time, also while handler threads write.                *)
(***************************************************************************)
C2_HandlerOrder ==
  /\ hdepth \in {0, 1}
  /\ hdepth = 1 <=> lpc = "handler"
  /\ IsPrefix(hcalls, ExpectedCalls)
  /\ (lpc = "stopped" /\ stop = "eof" /\ ~HandlerRaised) => hcalls = ExpectedCalls

\* the second handler call is executing while a handler thread writes
C2_Witness ==
  /\ Len(hcalls) = 2
  /\ hdepth = 1
  /\ \E e \in Emitters : Writing(e)

(***************************************************************************)
(* C4.  For every Info, Init, Snapshot or Restore request read, the loop   *)
(* has invoked the matching handler method exactly once, it writes at most *)
(* one response frame for it, that frame is the serialized value the call  *)
(* returned, and it has been written when the loop goes on to the next     *)
(* read, and whenever the call returned a Response and no write raised.    *)
(***************************************************************************)
C4_DirectResponse ==
  LET R == Requests IN
  \A i \in 1..nread :
    (i <= Len(R) /\ R[i].kind \in {"info", "init", "snapshot", "restore"}) =>
      LET calls == SelectSeq(hcalls, LAMBDA h : h.i = i)
          rets == SelectSeq(hrets, LAMBDA h : h.i = i)
          fr == DirectFrames(i)
      IN  /\ Len(calls) = 1
          /\ calls[1].m = MethodOf[R[i].kind]
          /\ Len(fr) <= 1
          /\ Len(fr) = 1 =>
               /\ Len(rets) = 1
               /\ fr[1].b = SerializeToString(rets[1].v)
          /\ Moved(i) => Len(fr) = 1
          /\ (/\ Len(rets) = 1
              /\ rets[1].v.kind \notin {"None", "Bad", "Raise"}
              /\ faultsLeft = MaxFaults
              /\ ~(nread = i /\ lpc = "respond")) => Len(fr) = 1

\* a Restore request has been answered and the loop reads on
C4_Witness ==
  \E i \in 1..nread :
    /\ i <= Len(Requests) /\ Requests[i].kind = "restore"
    /\ Moved(i)
    /\ Len(DirectFrames(i)) = 1
    /\ DirectFrames(i)[1].b = SerializeToString(Resp("restore", 1, 0, 0))

(***************************************************************************)
(* C5.  When the loop goes on to read after an Info, Init, Keepalive,      *)
(* Snapshot or Restore request, its response frame to that request is on   *)
(* the output stream and has been flushed.                                 *)
(***************************************************************************)
C5_FlushedBeforeNextRead ==
  LET R == Requests IN
  \A i \in 1..nread :
    (/\ i <= Len(R)
     /\ R[i].kind \in {"info", "init", "keepalive", "snapshot", "restore"}
     /\ Moved(i)) =>
      \E j \in 1..flushed :
        /\ j <= Len(out)
        /\ out[j].t = LoopT /\ out[j].ri = i
        /\ out[j].part = "data" /\ out[j].src = "direct"

\* the second request is being handled, the answer to the first is flushed
\* and a later frame of a handler thread is not
C5_Witness ==
  /\ nread = 2
  /\ Len(DirectFrames(1)) = 1
  /\ 0 < flushed /\ flushed < Len(out)

(***************************************************************************)
(* C6.  When no handler call emits anything, the frames on the output are  *)
(* the loop's answers in the order of the requests: each answers a later   *)
(* request than the frame before it (an Error frame may follow the answer  *)
(* to the same request, when the flush of that answer raised), carries the *)
(* variant of its request (a Keepalive its time), an Error frame is the    *)
(* last one, and no request the loop has gone past is left unanswered.     *)
(***************************************************************************)
C6_ResponseOrder ==
  hemitLeft = MaxHandlerEmits =>
    LET F == Payloads(out)
        R == Requests
    IN  /\ \A j \in 1..Len(F) :
             /\ j > 1 => \/ F[j - 1].ri < F[j].ri
                         \/ F[j - 1].ri = F[j].ri /\ F[j].src = "error"
             /\ F[j].ri \in 1..Len(R)
             /\ F[j].src \in {"direct", "error"}
             /\ F[j].src = "error" => j = Len(F)
             /\ F[j].src = "direct" =>
                  /\ F[j].b[1] = Tag(R[F[j].ri].kind)
                  /\ R[F[j].ri].kind = "keepalive" =>
                       F[j].b = SerializeToString(Resp("keepalive", R[F[j].ri].a, 0, 0))
        /\ \A i \in 1..nread :
             (/\ i <= Len(R)
              /\ R[i].kind \in {"info", "init", "keepalive", "snapshot", "restore"}
              /\ Moved(i)) =>
               \E j \in 1..Len(F) : F[j].ri = i /\ F[j].src = "direct"

\* three requests answered in order, no handler emit
C6_Witness ==
  /\ hemitLeft = MaxHandlerEmits
  /\ Len(Payloads(out)) = 3
  /\ \A j \in 1..3 : Payloads(out)[j].ri = j /\ Payloads(out)[j].src = "direct"

(***************************************************************************)
(* C9.  Every write_response call that completes puts exactly one frame on *)
(* the output: a background thread that has completed its KFrames calls    *)
(* has KFrames frames there, no thread has fewer frames than completed     *)
(* calls (nor more, with no flush failure), the frames of one thread are   *)
(* in the order of its calls, and once all writers are out of              *)
(* write_response, with no write cut short, a reader gets exactly these    *)
(* frames, each whole: as many as calls completed.                         *)
(***************************************************************************)
C9_AllFramesArrive ==
  LET P == Payloads(out)
      Of(t) == SelectSeq(P, LAMBDA c : c.t = t)
      Completed(t) == SelectSeq(wlog, LAMBDA w : w.t = t)
  IN  /\ \A t \in Threads :
           /\ \A j \in 2..Len(Of(t)) : Of(t)[j].n > Of(t)[j - 1].n
           /\ Len(Of(t)) >= Len(Completed(t))
           /\ faultsLeft = MaxFaults =>
                /\ Len(Of(t)) = Len(Completed(t))
                /\ \A j \in 1..Len(Of(t)) : Of(t)[j].b = Completed(t)[j].data
      /\ \A e \in Emitters :
           (bpc[e] = "done" /\ bleft[e] = 0) => Len(Of(e)) = KFrames
      /\ (faultsLeft = MaxFaults /\ lock = Free) =>
           LET r == ParseStream(Flatten(out), 1) IN
           /\ r.whole
           /\ Len(r.frames) = Len(wlog)
           /\ r.frames = [j \in 1..Len(P) |-> P[j].b]

\* the loop and a handler thread have both completed their calls: the loop
\* has stopped after at least one frame, the thread after KFrames
C9_Witness ==
  /\ lpc = "stopped"
  /\ \E j \in 1..Len(wlog) : wlog[j].t = LoopT
  /\ \E e \in Emitters :
       /\ bpc[e] = "done" /\ bleft[e] = 0
       /\ Len(SelectSeq(wlog, LAMBDA w : w.t = e)) = KFrames
  /\ faultsLeft = MaxFaults

(***************************************************************************)
(* C7.  A write_response call made by a handler method from inside a       *)
(* callback of the read loop never deadlocks: the loop does not hold the   *)
(* write lock while the handler method executes, and the call always gets  *)
(* past acquire once the concurrent writers have finished.                 *)
(***************************************************************************)
C7_NestedEmitProceeds ==
  /\ [](lpc = "handler" => lock # LoopT \/ Writing(LoopT))
  /\ (lpc = "handler" /\ wpc[LoopT] = "call") ~> (wpc[LoopT] # "call")

\* the handler's emit waits while a handler thread holds the lock
C7_Witness ==
  /\ lpc = "handler"
  /\ wpc[LoopT] = "call"
  /\ lock \in Emitters

(***************************************************************************)
(* C10.  After a fatal error (control has reached the except Exception     *)
(* block) the loop makes one Error emit and stops, whether the emit        *)
(* returns or raises: the Error emit is never attempted twice, from then   *)
(* on no byte is read, no frame is counted and no handler method is        *)
(* invoked, and a stopped loop stays stopped.                              *)
(***************************************************************************)
C10_StopsAfterError ==
  /\ [](nerr <= 1)
  /\ [](nerr = 1 => lpc \in {"fatal", "stopped"})
  /\ []((lpc = "stopped" /\ nerr = 1) => stop \in {"fatal", "crash"})
  /\ [][/\ nerr >= 1 =>
             /\ pos' = pos /\ nread' = nread
             /\ hcalls' = hcalls /\ hrets' = hrets /\ hdepth' = hdepth
             /\ nerr' = nerr
        /\ lpc = "stopped" => lpc' = "stopped"]_vars

\* the Error emit raised, the loop has stopped, and a well-formed request
\* is still unread on the input
C10_Witness ==
  /\ lpc = "stopped"
  /\ stop = "crash"
  /\ nerr = 1
  /\ pos <= Len(inp)
  /\ Scan(inp, pos) # <<>>
  /\ Scan(inp, pos)[1].kind \in ReqKinds

(***************************************************************************)
(* C3.  When a handler method raises while the loop dispatches a request   *)
(* and the output is writable, the loop writes exactly one Error response, *)
(* writes nothing after it and exits.                                      *)
(***************************************************************************)
C3_RaiseYieldsOneError ==
  (lpc = "stopped" /\ HandlerRaised /\ faultsLeft = MaxFaults) =>
    LET L == SelectSeq(Payloads(out), LAMBDA c : c.t = LoopT) IN
    /\ Len(L) >= 1
    /\ L[Len(L)].src = "error"
    /\ Len(SelectSeq(L, LAMBDA c : c.src = "error")) = 1

(***************************************************************************)
(* How the input ends, for a reader that takes it frame by frame, and the  *)
(* longest length prefix decodeUvarint32 accepts.                          *)
(***************************************************************************)
\* "none": on a frame boundary; "varint": inside a length; "payload": after
\* a length, before the end of its payload; "long": at a length that never
\* ends
RECURSIVE CutKind(_, _)
CutKind(s, p) ==
  LET d == decodeUvarint32(s, p) IN
  IF d.st = "EOF" THEN (IF p > Len(s) THEN "none" ELSE "varint")
  ELSE IF d.st = "error" THEN "long"
  ELSE LET data == Read(s, d.pos, d.val) IN
       IF Small(Len(data)) # d.val THEN "payload"
       ELSE CutKind(s, d.pos + Len(data))

\* continuation bytes after which shift >= 32 (line 194)
MaxVarintBytes == (32 \div shiftSize) + 1

\* MaxVarintBytes bytes with the continuation bit set start at p
LongAt(s, p) ==
  /\ p >= 1
  /\ p + MaxVarintBytes - 1 <= Len(s)
  /\ \A j \in 0..(MaxVarintBytes - 1) : HasMore(s[p + j])

\* the Error responses the loop has put on the output
LoopErrors == SelectSeq(out, LAMBDA c : c.t = LoopT /\ c.src = "error")

(***************************************************************************)
(* C11.  When the loop is about to read a frame and the input is at its    *)
(* end (no byte of a new frame), the loop stops gracefully: in that step   *)
(* it ends with "eof", makes no Error emit, starts no write_response call  *)
(* and invokes no handler method; a loop that ended with "eof" has written *)
(* no Error response.                                                      *)
(***************************************************************************)
C11_GracefulStop ==
  /\ [][(lpc = "read" /\ pos > Len(inp) /\ lpc' # "read") =>
          /\ lpc' = "stopped" /\ stop' = "eof"
          /\ nerr' = nerr /\ nread' = nread
          /\ hcalls' = hcalls /\ hdepth' = hdepth
          /\ wpc'[LoopT] = "none" /\ out' = out]_vars
  /\ [](stop = "eof" => (nerr = 0 /\ LoopErrors = <<>>))

\* whole frames were read and handled, then the stream ended on a frame
\* boundary and the loop stopped there
C11_Witness ==
  /\ lpc = "stopped"
  /\ stop = "eof"
  /\ pos = Len(inp) + 1
  /\ nread >= 2
  /\ CutKind(inp, 1) = "none"
  /\ ~HandlerRaised

(***************************************************************************)
(* C12.  When the input ends after a length prefix has been decoded and    *)
(* before all of the payload has arrived, the loop that has read this      *)
(* frame has attempted an Error response and stopped on the failure.       *)
(***************************************************************************)
C12_ShortPayloadIsFatal ==
  (CutKind(inp, 1) = "payload" /\ pos > Len(inp) /\ lpc = "stopped") =>
    (nerr = 1 /\ stop \in {"fatal", "crash"})

(***************************************************************************)
(* C13.  When the input ends inside a length prefix, after one or more     *)
(* continuation bytes, the loop that has read those bytes has not stopped  *)
(* the way it stops on a clean end of the stream.                          *)
(***************************************************************************)
C13_CutVarintNotGraceful ==
  (CutKind(inp, 1) = "varint" /\ pos > Len(inp) /\ lpc = "stopped") =>
    stop # "eof"

(***************************************************************************)
(* C14.  decodeUvarint32 fails exactly when MaxVarintBytes (5) bytes with  *)
(* the continuation bit set come first, and the failure is fatal: the loop *)
(* step that meets such a length makes the one Error emit, for a request   *)
(* of type unknown, invokes no handler method, and from there the loop     *)
(* only stops.                                                             *)
(***************************************************************************)
C14_MalformedVarintFatal ==
  /\ [](pos <= Len(inp) + 1 =>
          (decodeUvarint32(inp, pos).st = "error" <=> LongAt(inp, pos)))
  /\ [][(lpc = "read" /\ LongAt(inp, pos) /\ lpc' # "read") =>
          /\ lpc' = "fatal"
          /\ nerr' = nerr + 1 /\ nerr = 0
          /\ wpc'[LoopT] = "call"
          /\ wresp'[LoopT] = ErrorResp("unknown", CauseVarint)
          /\ hcalls' = hcalls
          /\ pos' = pos + MaxVarintBytes]_vars
  /\ [][(lpc = "fatal" /\ lpc' # "fatal") => lpc' = "stopped"]_vars

\* a request was handled, then a length that never ends was met, the Error
\* response for it is on the output and the loop has stopped
C14_Witness ==
  /\ lpc = "stopped"
  /\ stop = "fatal"
  /\ nread >= 2
  /\ wresp[LoopT] = ErrorResp("unknown", CauseVarint)
  /\ Len(LoopErrors) = 2

\* 0 <= v < 2^32
InRange32(v) == v.hi < 2 ^ (32 - LoBits)

(***************************************************************************)
(* C15.  For every v with 0 <= v < 2^32, decodeUvarint32 applied to the    *)
(* bytes encodeUvarint(v) wrote, whatever follows them on the stream,      *)
(* returns v and has consumed exactly the bytes written.                   *)
(***************************************************************************)
C15_RoundTrip ==
  (codec.pc = "decoded" /\ InRange32(codec.v)) =>
    /\ codec.res.st = "ok"
    /\ codec.res.val = codec.v
    /\ codec.res.pos = Len(codec.enc) + 1

\* 2^32 - 1 went through five bytes, with other bytes after them
C15_Witness ==
  /\ codec.pc = "decoded"
  /\ codec.v = mask32uint
  /\ Len(codec.enc) = MaxVarintBytes
  /\ codec.tail # <<>>
  /\ codec.res.val = mask32uint

(***************************************************************************)
(* C16.  Whenever no thread is inside write_response, the bytes on the     *)
(* output are a sequence of complete frames: a reader gets every payload   *)
(* that was written, whole, and nothing else, also after a call that       *)
(* failed between the length prefix and the payload.                       *)
(***************************************************************************)
C16_NoPartialFrame ==
  lock = Free =>
    LET r == ParseStream(Flatten(out), 1)
        P == Payloads(out)
    IN  /\ r.whole
        /\ r.frames = [j \in 1..Len(P) |-> P[j].b]

\* everything the loop wrote while it handled request i
LoopWrites(i) == SelectSeq(out, LAMBDA c : c.t = LoopT /\ c.ri = i)

(***************************************************************************)
(* C18.  For every BeginBatch, Point and EndBatch request that was read,   *)
(* the matching handler method was invoked exactly once, with the request, *)
(* and the loop wrote no response of its own: what it wrote while handling *)
(* the request is what the handler emitted through write_response, or the  *)
(* Error response when the call did not return normally; when it returned  *)
(* normally, the handler's emits only.                                     *)
(***************************************************************************)
C18_BatchNoOwnFrame ==
  LET R == Requests IN
  \A i \in 1..Len(R) :
    (R[i].kind \in BatchKinds /\ nread >= i) =>
      LET calls == SelectSeq(hcalls, LAMBDA c : c.i = i)
          rets == SelectSeq(hrets, LAMBDA r : r.i = i)
          W == LoopWrites(i)
      IN  /\ Len(calls) = 1
          /\ calls[1].m = MethodOf[R[i].kind]
          /\ calls[1].a = R[i].a
          /\ DirectFrames(i) = <<>>
          /\ \A j \in 1..Len(W) : W[j].src \in {"emit", "error"}
          /\ (Len(rets) = 1 /\ rets[1].v.kind # "Raise") =>
               /\ \A j \in 1..Len(W) :
                    /\ W[j].src = "emit"
                    /\ W[j].part = "data" => W[j].b = SerializeToString(EmitResp)
               /\ ~(nread = i /\ lpc \in {"respond", "fatal"})
               /\ nerr = 0 \/ nread > i

\* a point request whose handler emitted a frame and returned; the loop has
\* read the next frame
C18_Witness ==
  LET R == Requests IN
  \E i \in 1..Len(R) :
    /\ R[i].kind = "point"
    /\ nread > i
    /\ \E j \in 1..Len(hrets) : hrets[j].i = i /\ hrets[j].v.kind # "Raise"
    /\ \E j \in 1..Len(out) :
         out[j].t = LoopT /\ out[j].ri = i /\ out[j].part = "data" /\ out[j].src = "emit"

(***************************************************************************)
(* C19.  The Error response of a fatal failure names the request of the    *)
(* current iteration: the variant of the frame read last when that frame   *)
(* was decoded and parsed, 'unknown' when its length or its parsing failed *)
(* (never the variant of an earlier request); and it carries the error     *)
(* that was raised: by the decoder, the parser, the handler method or the  *)
(* write of the answer.                                                    *)
(***************************************************************************)
C19_ErrorNamesRequest ==
  LET R == Requests IN
  nerr >= 1 =>
    LET e == wresp[LoopT]
        known == nread \in 1..Len(R) /\ R[nread].kind \in ReqKinds
        last == IF hrets = <<>> THEN [i |-> 0, v |-> NoneResp] ELSE hrets[Len(hrets)]
    IN  /\ e.kind = "error"
        /\ e.a = (IF known THEN Tag(R[nread].kind) ELSE Tag("unknown"))
        /\ \A j \in 1..Len(LoopErrors) :
             LoopErrors[j].part = "data" => LoopErrors[j].b = SerializeToString(e)
        /\ e.b \in {CauseVarint, CauseParse} <=> ~known
        /\ e.b = CauseVarint <=> LongAt(inp, pos - MaxVarintBytes) /\ ~known
        /\ e.b = CauseHandler =>
             (last.i = nread /\ last.v.kind = "Raise")
        /\ e.b = CauseNone =>
             (last.i = nread /\ last.v = NoneResp /\ R[nread].kind \in DirectKinds)
        /\ e.b = CauseSerialize =>
             (last.i = nread /\ last.v = BadResp /\ R[nread].kind \in DirectKinds)
        /\ e.b = CauseWrite => faultsLeft < MaxFaults
        /\ e.b \in {CauseVarint, CauseParse, CauseHandler, CauseNone,
                    CauseSerialize, CauseWrite}

\* a request with a variant was handled, the next frame did not parse: the
\* Error response on the output is for type 'unknown'
C19_Witness ==
  LET R == Requests IN
  /\ nerr = 1
  /\ lpc = "stopped"
  /\ nread >= 2
  /\ R[nread].kind = "bad"
  /\ R[nread - 1].kind \in ReqKinds
  /\ \E j \in 1..Len(LoopErrors) :
       LoopErrors[j].part = "data" /\ LoopErrors[j].b = SerializeToString(ErrorResp("unknown", CauseParse))

(***************************************************************************)
(* C17.  A Keepalive request is answered by the loop itself: no handler    *)
(* method is invoked for it, the fields of the handler stay as they are    *)
(* while it is handled, and the loop writes for it at most one response,   *)
(* a Keepalive whose time is the time of the request; exactly one when the *)
(* loop goes on to the next read and whenever no write raised.             *)
(***************************************************************************)
C17_KeepaliveEcho ==
  /\ [](LET R == Requests IN
        \A i \in 1..Len(R) :
          (R[i].kind = "keepalive" /\ nread >= i) =>
            LET fr == DirectFrames(i) IN
            /\ \A j \in 1..Len(hcalls) : hcalls[j].i # i
            /\ \A j \in 1..Len(hrets) : hrets[j].i # i
            /\ Len(fr) <= 1
            /\ \A j \in 1..Len(fr) :
                 fr[j].b = SerializeToString(Resp("keepalive", R[i].a, 0, 0))
            /\ Moved(i) => Len(fr) = 1
            /\ (faultsLeft = MaxFaults /\ ~(nread = i /\ lpc = "respond")) => Len(fr) = 1)
  /\ [][msg' = "keepalive" =>
          (hstate' = hstate /\ hcalls' = hcalls /\ hrets' = hrets /\ hdepth' = 0)]_vars

\* the handler was initialized, then a Keepalive was answered and the loop
\* went on
C17_Witness ==
  LET R == Requests IN
  \E i \in 2..Len(R) :
    /\ R[i].kind = "keepalive"
    /\ Moved(i)
    /\ hstate # AvgNew
    /\ Len(DirectFrames(i)) = 1
    /\ DirectFrames(i)[1].b = <<Tag("keepalive"), 7, 0>>

(***************************************************************************)
(* C20.  Every Init request with missing or invalid options, and every     *)
(* Restore request with a malformed snapshot, that the moving-average      *)
(* handler has dealt with got an Init or Restore response with success     *)
(* false and an error text; with no write failing, no Error emit was made  *)
(* for it and the loop did not stop on it.                                 *)
(***************************************************************************)
C20_ValidationRecoverable ==
  LET R == Requests IN
  \A j \in 1..Len(hrets) :
    LET i == hrets[j].i
        v == hrets[j].v
    IN  (\/ R[i].kind = "init" /\ R[i].a \in BadInits
         \/ R[i].kind = "restore" /\ R[i].a \in BadSnapshots) =>
          /\ v.kind = R[i].kind
          /\ v.a = 0
          /\ v.b # 0
          /\ (faultsLeft = MaxFaults /\ nread = i) =>
               (nerr = 0 /\ stop \in {"no", "eof"})

\* the 7-bit groups of bytes bs put together, the first byte lowest
RECURSIVE GroupsValue(_, _)
GroupsValue(bs, k) ==
  IF k = 0 THEN Small(0)
  ELSE OrShifted(GroupsValue(bs, k - 1), bs[k] % (varintMask + 1), (k - 1) * shiftSize)

(***************************************************************************)
(* C29.  The bytes encodeUvarint writes for v are the 7-bit groups of v,   *)
(* low-order group first: every byte but the last has the continuation bit *)
(* set, the last has it clear, the groups put together give v, and the     *)
(* encoding is minimal: the last group is not 0 unless it is the only one, *)
(* so 0 takes one byte and every v < 2^32 between 1 and 5 bytes.           *)
(***************************************************************************)
C29_EncodingShape ==
  codec.pc \in {"encoded", "decoded"} =>
    LET e == codec.enc
        n == Len(e)
    IN  /\ n >= 1
        /\ \A i \in 1..n : e[i] \in 0..(2 ^ byteSize - 1)
        /\ \A i \in 1..(n - 1) : HasMore(e[i])
        /\ ~HasMore(e[n])
        /\ GroupsValue(e, n) = codec.v
        /\ n > 1 => e[n] # 0
        /\ codec.v = Small(0) => e = <<0>>
        /\ InRange32(codec.v) => n <= MaxVarintBytes
        /\ \A k \in 1..MaxVarintBytes :
             (k * shiftSize <= LoBits /\ codec.v.hi = 0
                /\ codec.v.lo < 2 ^ (Min(k * shiftSize, LoBits)))
               => n <= k

\* 2^21 has been written: three continuation bytes and a last byte of 1
C29_Witness ==
  /\ codec.pc = "encoded"
  /\ codec.v = Small(2 ^ (3 * shiftSize))
  /\ codec.enc = <<varintMoreMask, varintMoreMask, varintMoreMask, 1>>

(***************************************************************************)
(* C21.  A BeginBatch or EndBatch request to the moving-average handler    *)
(* has no recovery path: begin_batch and end_batch raise, the loop takes   *)
(* this for a fatal handler error, attempts one Error response naming the  *)
(* request and stops; the handler's state is left alone, no response other *)
(* than the Error response is written, and no later request is read.       *)
(***************************************************************************)
C21_BatchOnStreamHandlerFatal ==
  /\ [][(lpc = "handler" /\ msg \in {"begin", "end"}) =>
          /\ lpc' = "fatal"
          /\ nerr' = nerr + 1
          /\ wpc'[LoopT] = "call"
          /\ wsrc'[LoopT] = "error"
          /\ wresp'[LoopT] = ErrorResp(msg, CauseHandler)
          /\ hstate' = hstate
          /\ out' = out]_vars
  /\ [][(lpc \in {"fatal", "stopped"} /\ msg \in {"begin", "end"}) =>
          /\ lpc' \in {"fatal", "stopped"}
          /\ pos' = pos /\ nread' = nread /\ hcalls' = hcalls /\ nerr' = nerr
          /\ msg' = msg /\ hstate' = hstate]_vars
  /\ []((lpc = "stopped" /\ msg \in {"begin", "end"}) =>
          /\ stop \in {"fatal", "crash"}
          /\ nerr = 1
          /\ Len(hrets) = Len(hcalls)
          /\ hrets[Len(hrets)].v = Raised("Exception"))

\* after a successful Init, a BeginBatch request has stopped the loop with
\* its Error response written and a request still unread
C21_Witness ==
  /\ lpc = "stopped"
  /\ stop = "fatal"
  /\ msg = "begin"
  /\ hstate.field # NoField
  /\ pos <= Len(inp)
  /\ Payloads(out) # <<>>
  /\ Payloads(out)[Len(Payloads(out))].b = SerializeToString(ErrorResp("begin", CauseHandler))

(***************************************************************************)
(* C28.  A loop that has stopped has stopped for one of two reasons: the   *)
(* input ended cleanly, on a frame boundary, with no Error response (or a  *)
(* handler method raised the agent's EOF), or an error was met, for which  *)
(* the one Error response was attempted.                                   *)
(***************************************************************************)
C28_OnlyCleanEofOrError ==
  lpc = "stopped" =>
    \/ /\ stop = "eof"
       /\ nerr = 0
       /\ \/ HandlerRaised
          \/ (pos > Len(inp) /\ CutKind(inp, 1) = "none")
    \/ /\ stop \in {"fatal", "crash"}
       /\ nerr = 1

\* C28, the part about termination: with every thread scheduled again and
\* again, the input finite and the handler's calls returning or raising,
\* the loop reaches stopped, and stopped is never left
C28_Terminates ==
  /\ <>(lpc = "stopped")
  /\ [][lpc = "stopped" => lpc' = "stopped"]_vars

(***************************************************************************)
(* C27.  Agent.wait returns only after the read loop has stopped, and by   *)
(* then it has closed the input and the output stream; as long as the read *)
(* loop runs neither stream is closed, and wait that was called stays in   *)
(* join.                                                                   *)
(***************************************************************************)
C27_WaitJoinsThenCloses ==
  /\ [](waiter.pc = "returned" =>
          (lpc = "stopped" /\ waiter.inClosed /\ waiter.outClosed))
  /\ []((waiter.inClosed \/ waiter.outClosed) => lpc = "stopped")
  /\ [](waiter.outClosed => waiter.inClosed)
  /\ [][(lpc # "stopped" /\ waiter.pc = "join") => waiter'.pc = "join"]_vars
  /\ [][(waiter.pc = "close_out" /\ waiter' # waiter) =>
          (waiter'.pc = "returned" /\ waiter'.outClosed)]_vars

\* wait was called while the loop handled a request, and has returned
\* after the loop stopped at the end of the input, both streams closed
C27_Witness ==
  /\ waiter.pc = "returned"
  /\ waiter.inClosed /\ waiter.outClosed
  /\ stop = "eof"
  /\ nread = MaxReqs
  /\ Payloads(out) # <<>>

C22_PointNeedsBegin ==
  LET R == Requests IN
  (\A i \in 1..Min(nread, Len(R)) : R[i].kind # "begin") => hstate.entries = <<>>

(***************************************************************************)
(* C23.  When end_batch is about to run after a BeginBatch request         *)
(* followed by Point requests only, the entries the handler holds are      *)
(* exactly the points of these requests, in the order they arrived:        *)
(* nothing collected before the BeginBatch is among them.                  *)
(***************************************************************************)
C23_BatchHoldsItsPoints ==
  (lpc = "handler" /\ msg = "end" /\ ~hq.run) =>
    LET R == Requests
        B == {j \in 1..(nread - 1) : R[j].kind = "begin"}
    IN  B # {} =>
          LET j == CHOOSE b \in B : \A c \in B : c <= b
              pts == SubSeq(R, j + 1, nread - 1)
          IN  (\A i \in 1..Len(pts) : pts[i].kind = "point") =>
                hstate.entries = [k \in 1..Len(pts) |-> [v |-> pts[k].a, p |-> pts[k]]]

\* a batch was begun and got a point, then a second batch was begun and
\* got the points 9 and 1: end_batch is about to run on <<9, 1>>
C23_Witness ==
  /\ lpc = "handler" /\ msg = "end" /\ ~hq.run
  /\ nread = 7
  /\ Requests[2].kind = "begin" /\ Requests[3].kind = "point"
  /\ Requests[4].kind = "begin"
  /\ Len(hstate.entries) = 2
  /\ hstate.entries[1].v = 9 /\ hstate.entries[2].v = 1

(***************************************************************************)
(* C30.  For the moving-average handler in any reachable state, a Restore  *)
(* of exactly the snapshot the Snapshot request before it was answered     *)
(* with succeeds and leaves every group's window, size and running average *)
(* as they were, so that every point that follows gets the output, and     *)
(* leaves the state, it would have without the two requests.               *)
(***************************************************************************)
C30_SnapshotRestoreIdentity ==
  [][(/\ lpc = "handler" /\ msg = "restore" /\ request.a = EchoSnapshot
      /\ nread >= 2 /\ Requests[nread - 1].kind = "snapshot") =>
       /\ hstate' = hstate
       /\ \A a \in PointCodes : PointResult(hstate', a) = PointResult(hstate, a)
       /\ wresp'[LoopT] = Resp("restore", 1, 0, 0)
       /\ peerSnap.json /\ peerSnap.object
       /\ Len(peerSnap.groups) = Cardinality(DOMAIN hstate.state)]_vars

\* after an Init with size 2 group g has a full window of 1 and 3 and the
\* average 2; the snapshot was taken, restored, and the restore answered
C30_Witness ==
  /\ msg = "restore" /\ request.a = EchoSnapshot
  /\ nread = 5 /\ Requests[4].kind = "snapshot"
  /\ lpc = "read"
  /\ DOMAIN hstate.state = {"g"}
  /\ hstate.state["g"] = [size |-> 2, window |-> <<Float(1), Float(3)>>, avg |-> Float(2)]
  /\ peerSnap.groups[1].data.window = <<JFloat(Float(1)), JFloat(Float(3))>>

(***************************************************************************)
(* C33.  A frame whose request has no variant set, the frame of length 0   *)
(* included, is neither an end of the stream nor an error: the step that   *)
(* reads it calls no handler method, calls write_response for nothing,     *)
(* attempts no Error response and leaves the loop reading, at the frame    *)
(* that follows.                                                           *)
(***************************************************************************)
C33_NoVariantSkipped ==
  [][(/\ lpc = "read"
      /\ decodeUvarint32(inp, pos).st = "ok"
      /\ LET d == decodeUvarint32(inp, pos)
             p == ParseFromString(Read(inp, d.pos, d.val))
         IN  d.val = Small(0) \/ (p.ok /\ p.req.kind = "none")) =>
       /\ lpc' = "read"
       /\ stop' = stop /\ nerr' = nerr
       /\ hcalls' = hcalls /\ hrets' = hrets /\ hdepth' = hdepth
       /\ wpc' = wpc /\ out' = out /\ wlog' = wlog
       /\ nread' = nread + 1
       /\ LET d == decodeUvarint32(inp, pos)
          IN  pos' = d.pos + Len(Read(inp, d.pos, d.val))]_vars

\* a frame of length 0 came first and was passed over; the request after
\* it has been handled and answered
C33_Witness ==
  /\ Len(inp) > 1 /\ inp[1] = 0
  /\ nread = 2
  /\ lpc = "read"
  /\ Len(hcalls) = 1 /\ hcalls[1].i = 2
  /\ Len(Payloads(out)) = 1
  /\ nerr = 0

(***************************************************************************)
(* C34.  write_response rejects a None response at once: the call ends     *)
(* without the lock having been taken or waited for and without a byte     *)
(* written.  When info, init, snapshot or restore returned None, the loop  *)
(* therefore goes to its Error emit, naming the request, and stops; with   *)
(* the output writable the one frame it has written for the request is     *)
(* the Error response, whole, and no frame on the output is empty.         *)
(***************************************************************************)
C34_NoneRejected ==
  /\ [][(/\ wpc[LoopT] = "call" /\ wresp[LoopT] = NoneResp
         /\ wresp'[LoopT] # wresp[LoopT]) =>
          /\ lock' = lock /\ out' = out /\ wn' = wn /\ flushed' = flushed
          /\ lpc' = "fatal" /\ nerr' = nerr + 1 /\ nerr = 0
          /\ wresp'[LoopT] = ErrorResp(msg, CauseNone)
          /\ wsrc'[LoopT] = "error"]_vars
  /\ []((wpc[LoopT] = "call" /\ wresp[LoopT] = NoneResp) => ENABLED WEnter(LoopT))
  /\ [](\A j \in 1..Len(out) : out[j].part = "data" => Len(out[j].b) > 0)
  /\ []((/\ lpc = "stopped" /\ msg \in DirectKinds
         /\ hrets # <<>> /\ hrets[Len(hrets)].v = NoneResp) =>
          /\ stop \in {"fatal", "crash"}
          /\ nerr = 1
          /\ LET W == SelectSeq(LoopWrites(nread), LAMBDA c : c.src # "emit") IN
             /\ \A j \in 1..Len(W) : W[j].src = "error"
             /\ faultsLeft = MaxFaults =>
                  /\ stop = "fatal"
                  /\ Len(W) = 2
                  /\ W[1].part = "len" /\ W[1].b = <<Len(W[2].b)>>
                  /\ W[2].part = "data"
                  /\ W[2].b = SerializeToString(ErrorResp(msg, CauseNone)))

\* init returned None after its handler had started a thread that writes;
\* the loop has written the Error response and stopped
C34_Witness ==
  /\ lpc = "stopped" /\ stop = "fatal"
  /\ msg = "init"
  /\ hrets # <<>> /\ hrets[Len(hrets)].v = NoneResp
  /\ faultsLeft = MaxFaults
  /\ \E j \in 1..Len(out) : out[j].t # LoopT
  /\ LoopErrors # <<>>
  /\ LoopErrors[Len(LoopErrors)].b = SerializeToString(ErrorResp("init", CauseNone))

(***************************************************************************)
(* The decoder alone on bytes a peer wrote: decodeUvarint32 reads a stream *)
(* of up to MaxRawLen bytes drawn from RawBytes.                           *)
(***************************************************************************)
MaxRawLen == 5
\* bytes with and without the continuation bit, with and without bits that,
\* in the fifth position, lie above bit 31
RawBytes == {0, 1, 15, 16, 127, 128, 143, 255}
RawStreams == UNION {[1..n -> RawBytes] : n \in 0..MaxRawLen}

InitRaw ==
  /\ InitAgent({<<>>})
  /\ hstate = AvgNew
  /\ peerSnap = NoSnapshot
  /\ waiter = NoWaiter
  /\ server = NoServer
  /\ hq = HqIdle
  /\ codec \in {[NoCodec EXCEPT !.pc = "raw", !.enc = e] : e \in RawStreams}

\* decodeUvarint32(reader) on the peer's bytes
DecodeRaw ==
  /\ codec.pc = "raw"
  /\ codec' = [codec EXCEPT !.pc = "rawdecoded", !.res = decodeUvarint32(codec.enc, 1)]
  /\ UNCHANGED avars

NextRaw == DecodeRaw

RawSpec == InitRaw /\ [][NextRaw]_vars

\* the bits of byte b that, shifted left by 4 * shiftSize, lie above bit 31
HighBits(b) == (b % varintMoreMask) \div (2 ^ (32 - LoBits))

(***************************************************************************)
(* C35.  Every value decodeUvarint32 returns lies in [0, 2^32).  Five      *)
(* bytes whose fifth has no continuation bit are accepted whatever bits    *)
(* the fifth carries: the bits above bit 31 are dropped, the value is that *)
(* of the same bytes with those bits cleared, and so two different byte    *)
(* sequences decode to one value.                                          *)
(***************************************************************************)
C35_DecodedBelow2To32 ==
  codec.pc = "rawdecoded" =>
    /\ codec.res.st = "ok" =>
         /\ codec.res.val.hi \in 0..(2 ^ (32 - LoBits) - 1)
         /\ codec.res.val.lo \in 0..(2 ^ LoBits - 1)
    /\ (/\ Len(codec.enc) >= MaxVarintBytes
        /\ \A j \in 1..(MaxVarintBytes - 1) : codec.enc[j] >= varintMoreMask
        /\ codec.enc[MaxVarintBytes] < varintMoreMask) =>
         LET b == codec.enc[MaxVarintBytes]
             cleared == [codec.enc EXCEPT ![MaxVarintBytes] = b % (2 ^ (32 - LoBits))]
         IN  /\ codec.res.st = "ok"
             /\ codec.res.pos = MaxVarintBytes + 1
             /\ codec.res = decodeUvarint32(cleared, 1)
             /\ codec.res.val.hi = b % (2 ^ (32 - LoBits))

\* ff ff ff ff 7f was read as 2^32 - 1, the value of ff ff ff ff 0f
C35_Witness ==
  /\ codec.pc = "rawdecoded"
  /\ codec.enc = <<255, 255, 255, 255, 127>>
  /\ HighBits(codec.enc[MaxVarintBytes]) > 0
  /\ codec.res.st = "ok"
  /\ codec.res.val = mask32uint
  /\ codec.res.val = decodeUvarint32(<<255, 255, 255, 255, 15>>, 1).val

(***************************************************************************)
(* C38.  A Restore that AvgHandler answers with success = false leaves the *)
(* handler as it was before the request: no group's window, size or        *)
(* average was replaced, and no group was added.                           *)
(***************************************************************************)
C38_FailedRestoreKeepsState ==
  [][(/\ lpc = "handler" /\ msg = "restore"
      /\ lpc' = "respond"
      /\ wresp'[LoopT].kind = "restore" /\ wresp'[LoopT].a = 0) =>
       hstate' = hstate]_vars

\* the window a Point request with field a lands in: the one its group has,
\* or the one point() makes for it
WindowOf(h, a) ==
  IF PointGroup(a) \in DOMAIN h.state THEN h.state[PointGroup(a)] ELSE state(h.size)

(***************************************************************************)
(* C39.  A Point request that reaches AvgHandler while the window it lands *)
(* in has size 0 (no Init before it, or an Init that failed for its size)  *)
(* yields no Point response: point() raises, the loop makes its one Error  *)
(* emit for the request and stops, and with the output writable the Error  *)
(* response is the only frame written for the request.  The failed Init    *)
(* before it was answered with success = false and the loop went on.       *)
(***************************************************************************)
C39_PointOnEmptyWindowFatal ==
  /\ [][(/\ lpc = "handler" /\ msg = "point" /\ ~hq.run
         /\ WindowOf(hstate, request.a).size = 0
         /\ WindowOf(hstate, request.a).window = <<>>) =>
          /\ lpc' = "fatal" /\ nerr = 0 /\ nerr' = 1
          /\ out' = out /\ ~hq'.run
          /\ wresp'[LoopT] = ErrorResp("point", CauseHandler)
          /\ wsrc'[LoopT] = "error"
          /\ hrets' = Append(hrets, [i |-> nread, v |-> Raised("Exception")])]_vars
  /\ []((/\ lpc = "stopped" /\ msg = "point" /\ hrets # <<>>
         /\ hrets[Len(hrets)] = [i |-> nread, v |-> Raised("Exception")]) =>
          /\ stop \in {"fatal", "crash"} /\ nerr = 1
          /\ \A j \in 1..Len(out) : out[j].ri = nread => out[j].src = "error"
          /\ faultsLeft = MaxFaults =>
               /\ stop = "fatal"
               /\ Payloads(LoopWrites(nread)) # <<>>
               /\ Len(Payloads(LoopWrites(nread))) = 1
               /\ Payloads(LoopWrites(nread))[1].b
                    = SerializeToString(ErrorResp("point", CauseHandler)))
  /\ [](\A j \in 1..Len(hrets) :
          (Requests[hrets[j].i].kind = "init" /\ Requests[hrets[j].i].a = 3) =>
            /\ hrets[j].v.kind = "init" /\ hrets[j].v.a = 0
            /\ (nread = hrets[j].i /\ faultsLeft = MaxFaults) => nerr = 0)

\* Init with a size of 0 was answered with success = false, the Point after
\* it raised in update, and the loop wrote the Error response and stopped
C39_Witness ==
  /\ lpc = "stopped" /\ stop = "fatal" /\ msg = "point" /\ nread = 2
  /\ Requests[1] = Req("init", 3)
  /\ hstate.field # NoField /\ hstate.size = 0
  /\ Len(hrets) = 2 /\ hrets[1].v.kind = "init" /\ hrets[1].v.a = 0
  /\ hrets[2].v = Raised("Exception")
  /\ Len(Payloads(out)) = 2
  /\ Payloads(out)[1].b = SerializeToString(hrets[1].v)
  /\ Payloads(out)[2].b = SerializeToString(ErrorResp("point", CauseHandler))

(***************************************************************************)
(* The moving average alone: a successful Init with a window of 2 or of 5, *)
(* then up to MaxMeanPoints points of one group.                           *)
(***************************************************************************)
MaxMeanPoints == 5
MeanInits == {1, 6}
MeanValues == 1..5

RECURSIVE MeanPoints(_)
MeanPoints(n) ==
  IF n = 0 THEN {<<>>}
  ELSE MeanPoints(n - 1)
         \cup {s \o FrameOf(Req("point", v)) : s \in MeanPoints(n - 1), v \in MeanValues}

MeanStreams == {FrameOf(Req("init", a)) \o s : a \in MeanInits, s \in MeanPoints(MaxMeanPoints)}

InitMean == InitWith(MeanStreams)

NextMean ==
  \/ ReadDispatch
  \/ AvgHandler_init
  \/ AvgHandler_point
  \/ Handler_write
  \/ Handler_return
  \/ WEnter(LoopT)
  \/ WPrefix(LoopT)
  \/ WPayload(LoopT)

MeanSpec == InitMean /\ [][NextMean]_vars

RECURSIVE Sum(_)
Sum(vs) == IF vs = <<>> THEN 0 ELSE Head(vs) + Sum(Tail(vs))

\* the mean of the last s values of vs, or of all of them when there are
\* fewer, in units of 1/AvgScale
MeanOfLast(vs, s) ==
  LET k == IF Len(vs) < s THEN Len(vs) ELSE s
  IN  (AvgScale * Sum(SubSeq(vs, Len(vs) - k + 1, Len(vs)))) \div k

\* the Point responses whose write_response call has returned
PointsWritten == SelectSeq(wlog, LAMBDA w : w.data[1] = Tag("point"))

(***************************************************************************)
(* C31.  After a successful Init with window size s >= 1 AvgHandler emits  *)
(* exactly one Point response per Point request, in the order of the       *)
(* requests; its average is the mean of all values seen while fewer than s *)
(* were seen, and the mean of the most recent s values from then on (for   *)
(* the values 1..5 and s = 5: 1, 1.5, 2, 2.5, 3); no window ever holds     *)
(* more than s values.                                                     *)
(***************************************************************************)
C31_MovingAverage ==
  LET R == Requests
      P == PointsWritten
      s == IF R[1].a = 1 THEN 2 ELSE 5
      values(k) == [j \in 1..k |-> R[j + 1].a]
  IN  /\ Len(P) <= Len(R) - 1
      /\ \A k \in 1..Len(P) :
           P[k].data = SerializeToString(Resp("point", R[k + 1].a, MeanOfLast(values(k), s), 0))
      /\ (lpc = "read" /\ nerr = 0 /\ nread >= 1) => Len(P) = nread - 1
      /\ Len(P) <= nread
      /\ \A g \in DOMAIN hstate.state : Len(hstate.state[g].window) <= s
      /\ (/\ R[1].a = 6
          /\ Len(P) = 5
          /\ values(5) = <<1, 2, 3, 4, 5>>) =>
           [k \in 1..5 |-> P[k].data[3]]
             = <<AvgScale, (3 * AvgScale) \div 2, 2 * AvgScale, (5 * AvgScale) \div 2, 3 * AvgScale>>

\* a window of 2 and the points 1, 2, 3, 4, 5: the averages 1, 1.5, 2.5,
\* 3.5 and 4.5 were written, one for each point
C31_Witness ==
  /\ lpc = "read" /\ nread = 6 /\ nerr = 0
  /\ Requests[1] = Req("init", 1)
  /\ [k \in 1..5 |-> Requests[k + 1].a] = <<1, 2, 3, 4, 5>>
  /\ Len(PointsWritten) = 5
  /\ [k \in 1..5 |-> PointsWritten[k].data[3]]
       = <<AvgScale, (3 * AvgScale) \div 2, (5 * AvgScale) \div 2, (7 * AvgScale) \div 2,
           (9 * AvgScale) \div 2>>
  /\ hstate.state["g"].window = <<Float(4), Float(5)>>

(***************************************************************************)
(* C40.  The outliers handler emits nothing during begin_batch and point;  *)
(* every end_batch that follows a begin_batch, whatever the number of      *)
(* points between them (none included), returns normally and, with the     *)
(* output writable, has written one batch: one Begin frame, that of the    *)
(* stored begin request with size set to the number of outliers, then that *)
(* many Point frames, then one End frame for the end request.              *)
(***************************************************************************)
C40_EndBatchEmitsBatch ==
  LET R == Requests IN
  /\ \A j \in 1..Len(out) : out[j].src = "emit" => R[out[j].ri].kind = "end"
  /\ \A j \in 1..Len(hrets) :
       LET i == hrets[j].i
           F == Payloads(LoopWrites(i))
       IN  (/\ R[i].kind = "end"
            /\ \E b \in 1..(i - 1) :
                 /\ R[b].kind = "begin"
                 /\ \A k \in (b + 1)..(i - 1) : R[k].kind = "point") =>
             /\ hrets[j].v = NoneResp
             /\ faultsLeft = MaxFaults =>
                  /\ Len(F) >= 2
                  /\ F[1].b = SerializeToString(Resp("begin", 1, Len(F) - 2, 0))
                  /\ \A k \in 2..(Len(F) - 1) : F[k].b[1] = Tag("point")
                  /\ F[Len(F)].b = SerializeToString(Resp("end", R[i].a, 0, 0))

(***************************************************************************)
(* info() of the two example handlers, among their other methods: an Agent *)
(* is given an AvgHandler or an OutliersHandler and up to MaxInfoReqs      *)
(* requests.                                                               *)
(***************************************************************************)
MaxInfoReqs == 4

\* the Info response as the handlers fill it in: the edge types and the
\* names of the options
InfoResponse(wants, provides, options) ==
  Resp("info",
       (IF wants = "BATCH" THEN 2 ELSE 0) + (IF provides = "BATCH" THEN 1 ELSE 0),
       Cardinality(options), 0)

\* an info that forgets the window size
AvgInfoResets(h) ==
  [raised |-> FALSE, h |-> [h EXCEPT !.size = 0],
   resp |-> InfoResponse("STREAM", "STREAM", {"field", "size", "as"})]

\* AvgHandler.info, moving_avg.py lines 61-69
AvgInfo(h) ==
  [raised |-> FALSE, h |-> h,
   resp |-> InfoResponse("STREAM", "STREAM", {"field", "size", "as"})]

\* OutliersHandler.info, outliers.py lines 73-81
OutliersInfo(h) ==
  [raised |-> FALSE, h |-> h,
   resp |-> InfoResponse("BATCH", "BATCH", {"field", "scale"})]

AvgHandler_info ==
  /\ lpc = "handler"
  /\ msg = "info"
  /\ HandlerDone(AvgInfo(hstate))

OutliersHandler_info ==
  /\ lpc = "handler"
  /\ msg = "info"
  /\ HandlerDone(OutliersInfo(hstate))

\* the handler is an AvgHandler
IsAvg(h) == "size" \in DOMAIN h

AvgInfoFrames ==
  {FrameOf(Req("info", 0)), FrameOf(Req("init", 1)), FrameOf(Req("snapshot", 0)),
   FrameOf(Req("restore", EchoSnapshot))}
    \cup {FrameOf(Req("point", a)) : a \in {1, 3}}
OutInfoFrames ==
  {FrameOf(Req("info", 0)), FrameOf(Req("init", 1)), FrameOf(Req("begin", 1)),
   FrameOf(Req("end", 1))}
    \cup {FrameOf(Req("point", a)) : a \in OutValues}

RECURSIVE InfoStreams(_, _)
InfoStreams(frames, n) ==
  IF n = 0 THEN {<<>>}
  ELSE InfoStreams(frames, n - 1)
         \cup {s \o f : s \in InfoStreams(frames, n - 1), f \in frames}

InitInfo ==
  /\ InitRest
  /\ \/ hstate = AvgNew /\ InitAgent(InfoStreams(AvgInfoFrames, MaxInfoReqs))
     \/ hstate = OutNew /\ InitAgent(InfoStreams(OutInfoFrames, MaxInfoReqs))

NextInfo ==
  \/ ReadDispatch
  \/ /\ IsAvg(hstate)
     /\ \/ AvgHandler_info
        \/ AvgHandler_init
        \/ AvgHandler_snapshot
        \/ AvgHandler_restore
        \/ AvgHandler_point
  \/ /\ ~IsAvg(hstate)
     /\ \/ OutliersHandler_info
        \/ OutliersHandler_init
        \/ OutliersHandler_begin_batch
        \/ OutliersHandler_point
        \/ OutliersHandler_end_batch
  \/ Handler_write
  \/ Handler_return
  \/ WEnter(LoopT)
  \/ WPrefix(LoopT)
  \/ WPayload(LoopT)

InfoSpec == InitInfo /\ [][NextInfo]_vars

(***************************************************************************)
(* C32.  Two info calls with no other request between them return          *)
(* structurally identical Info responses (and, with the output writable,   *)
(* the two frames written are the same bytes); info changes nothing of the *)
(* handler, so that what init, point, snapshot and restore do afterwards   *)
(* is what they would have done without it.                                *)
(***************************************************************************)
C32_InfoIdempotent ==
  /\ [][(lpc = "handler" /\ msg = "info") =>
          /\ hstate' = hstate /\ peerSnap' = peerSnap /\ hq' = hq
          /\ lpc' = "respond" /\ nerr' = nerr
          /\ wresp'[LoopT].kind = "info"
          /\ hrets' = Append(hrets, [i |-> nread, v |-> wresp'[LoopT]])
          /\ wresp'[LoopT] = (IF "size" \in DOMAIN hstate
                                THEN InfoResponse("STREAM", "STREAM", {"field", "size", "as"})
                                ELSE InfoResponse("BATCH", "BATCH", {"field", "scale"}))]_vars
  /\ [](LET R == Requests IN
        \A j \in 1..Len(hrets) : \A k \in 1..Len(hrets) :
          (R[hrets[j].i].kind = "info" /\ R[hrets[k].i].kind = "info") =>
            hrets[j].v = hrets[k].v)
  /\ [](LET R == Requests IN
        \A i \in 1..(Len(R) - 1) :
          (/\ R[i].kind = "info" /\ R[i + 1].kind = "info"
           /\ Moved(i + 1) /\ nerr = 0 /\ faultsLeft = MaxFaults) =>
            /\ Len(DirectFrames(i)) = 1 /\ Len(DirectFrames(i + 1)) = 1
            /\ DirectFrames(i)[1].b = DirectFrames(i + 1)[1].b)

\* an AvgHandler was initialised, answered info twice with the same frame
\* and then a point: the window of 2 that init asked for holds the point,
\* and its average has been written
C32_Witness ==
  /\ IsAvg(hstate)
  /\ Len(Requests) = 4 /\ nread = 4 /\ lpc = "read" /\ nerr = 0
  /\ Requests[1] = Req("init", 1) /\ Requests[4] = Req("point", 3)
  /\ Requests[2].kind = "info" /\ Requests[3].kind = "info"
  /\ Len(DirectFrames(2)) = 1 /\ Len(DirectFrames(3)) = 1
  /\ DirectFrames(2)[1].b = DirectFrames(3)[1].b
  /\ hstate.state["g"] = [size |-> 2, window |-> <<Float(3)>>, avg |-> Float(3)]
  /\ Payloads(LoopWrites(4)) # <<>>
  /\ Payloads(LoopWrites(4))[1].b = SerializeToString(Resp("point", 3, Float(3), 0))

(***************************************************************************)
(* C36.  Every frame write_response has written reaches the peer.  What    *)
(* is written leaves in the order it was written; a write_response with    *)
(* flush (every direct response) that returns has pushed out all that was  *)
(* written before it, its own frame included; a frame written without      *)
(* flush (what a handler emits, the Error response) stays behind only      *)
(* until then or until wait() closes the output, and after wait() has      *)
(* returned nothing written is left undelivered.  With the loop's thread   *)
(* running and wait() called, whatever is written is delivered in the end. *)
(***************************************************************************)
C36_WrittenIsDelivered ==
  /\ [](flushed <= Len(out))
  /\ [][IsPrefix(out, out') /\ flushed' >= flushed]_vars
  /\ [][(Len(wlog') > Len(wlog) /\ wflush[LoopT] /\ wpc[LoopT] = "payload") =>
          flushed' = Len(out')]_vars
  /\ [](waiter.outClosed => flushed = Len(out))
  /\ ((flushed < Len(out)) ~> (flushed = Len(out)))
  /\ <>[](flushed = Len(out))

\* a handler's emit and the Error response, both written without flush,
\* were pushed out when wait() closed the output
C36_Witness ==
  /\ waiter.pc = "returned"
  /\ stop = "fatal"
  /\ flushed = Len(out)
  /\ \E j \in 1..Len(out) : out[j].src = "emit" /\ out[j].part = "data"
  /\ out[Len(out)].src = "error" /\ out[Len(out)].part = "data"
  /\ wlog # <<>>
  /\ ~wflush[LoopT]

(***************************************************************************)
(* C37.  Whatever the calls of start() and wait() on one Agent, no two     *)
(* read-loop threads run at the same time, and wait() has got past its     *)
(* join only when no read loop of the Agent runs any more.                 *)
(***************************************************************************)
C37_OneReadLoop ==
  /\ ~(lpc # "stopped" /\ waiter.second = "running")
  /\ waiter.pc \in {"close_in", "close_out", "returned"} =>
       (lpc = "stopped" /\ waiter.second # "running")

====
